---- MODULE Spec2Model ----
(***************************************************************************)
(* A model of mercator_db: the coordinate / shape algebra, the SpaceIndex  *)
(* wrapper around the space-filling-curve index, the SpaceDB resolution    *)
(* pyramid and the Core query engine.                                      *)
(*                                                                         *)
(* Encoded coordinates (the unsigned Coordinate variants) are naturals.    *)
(* Positions are tuples of coordinates; the shape queries are modelled on  *)
(* two-dimensional positions (Position::Position2).                        *)
(***************************************************************************)
EXTENDS Integers, Sequences, FiniteSets, Bags, TLC

VARIABLES
    index,      \* SpaceIndex.index: the set of (key, fields) entries of one level
    query,      \* the last find_by_shape call: its shape and view port
    outcome,    \* what find_by_shape returned for `query`
    build,      \* the arguments SpaceDB::new was called with
    indices,    \* SpaceDB::new's `indices`: (objects, scale, shift) in build order
    resolutions,\* SpaceDB.resolutions: the levels, after the sort by threshold
    parameters, \* the CoreQueryParameters of the last SpaceDB::resolution call
    selected,   \* what SpaceDB::resolution returned for `parameters`
    axis,       \* the Graduation of the Axis encode is called on
    input,      \* the `val` of the last Axis::encode call
    coordinate, \* what Axis::encode returned for `input`
    call,       \* the last Core query: its name, identifier and parameters
    results,    \* what the Core query returned for `call`
    trip,       \* the last round trip: where it started and what came back
    raster,     \* the last Shape::rasterise call: the shape and the positions
    database,   \* what DataBase::load returned: the two catalogs, or an error
    answer,     \* the last DataBase::space / core call and what it returned
    compared,   \* the last comparison of two positions and its outcome
    table,      \* what build_index made of a list of spatial objects
    made        \* the last Axis::new call and what it returned

shapeVars == <<index, query, outcome>>

dbVars == <<build, indices, resolutions, parameters, selected>>

axisVars == <<axis, input, coordinate>>

coreVars == <<call, results>>

tripVars == <<trip>>

rasterVars == <<raster>>

baseVars == <<database, answer>>

orderVars == <<compared>>

tableVars == <<table>>

madeVars == <<made>>

lateVars == <<orderVars, tableVars, madeVars>>

vars ==
    <<index, query, outcome, build, indices, resolutions, parameters, selected,
      axis, input, coordinate, call, results, trip, raster, database, answer,
      compared, table, made>>

(***************************************************************************)
(* Bounds                                                                  *)
(***************************************************************************)
\* Largest encoded tick on an axis of the indexed space.
MaxTick == 2

\* Largest encoded coordinate of an object handed to SpaceDB::new.
MaxCoord == 3

\* Most distinct objects handed to SpaceDB::new.
MaxObjects == 3

\* Largest bit shift in an explicit `scales` list, and the longest list.
MaxScale == 2
MaxScales == 2

\* Largest threshold_volume asked for, in quarters of a unit volume.
MaxVolumeQuarters == 5

Ticks == 0..MaxTick

\* Every encoded two-dimensional position of the indexed space.
Keys == Ticks \X Ticks

None == [type |-> "None"]
Some(v) == [type |-> "Some", value |-> v]

\* Nothing has been built or asked of the part of the state named.
ShapeIdle == index = {} /\ query = None /\ outcome = None
DbIdle ==
    /\ build = None
    /\ indices = <<>>
    /\ resolutions = <<>>
    /\ parameters = None
    /\ selected = None
AxisIdle == axis = None /\ input = None /\ coordinate = None
CoreIdle == call = None /\ results = None
TripIdle == trip = None
RasterIdle == raster = None
BaseIdle == database = None /\ answer = None
LateIdle == compared = None /\ table = None /\ made = None

(***************************************************************************)
(* Coordinate (encoded variants)                                           *)
(***************************************************************************)
\* impl Sub for Coordinate: the unsigned difference is clamped at zero.
CoordinateSub(l, r) == IF l < r THEN 0 ELSE l - r

\* impl Add for Coordinate, unsigned operands.
CoordinateAdd(l, r) == l + r

\* Ord for Coordinate / PartialOrd for Coordinate on unsigned operands.
CoordinateCmp(l, r) == IF l < r THEN "Less" ELSE IF l = r THEN "Equal" ELSE "Greater"

(***************************************************************************)
(* Position                                                                *)
(***************************************************************************)
\* impl Sub for &Position: element-wise Coordinate subtraction.
PositionSub(a, b) == [k \in DOMAIN a |-> CoordinateSub(a[k], b[k])]

\* impl Add for &Position: element-wise Coordinate addition.
PositionAdd(a, b) == [k \in DOMAIN a |-> CoordinateAdd(a[k], b[k])]

RECURSIVE SumSquares(_, _)
SumSquares(p, k) == IF k = 0 THEN 0 ELSE p[k] * p[k] + SumSquares(p, k - 1)

\* Position::norm() <= radius, for positions of two or more dimensions:
\* sqrt(sum of squares) <= radius, decided on the squares (radius >= 0).
NormLeq(p, radius) == SumSquares(p, Len(p)) <= radius * radius

\* #[derive(Ord)] on Position: the coordinates are compared in axis order
\* and the first difference decides.
RECURSIVE PositionCmpFrom(_, _, _)
PositionCmpFrom(a, b, k) ==
    IF k > Len(a) THEN "Equal"
    ELSE IF CoordinateCmp(a[k], b[k]) # "Equal" THEN CoordinateCmp(a[k], b[k])
    ELSE PositionCmpFrom(a, b, k + 1)

PositionCmp(a, b) == PositionCmpFrom(a, b, 1)

\* Ord::max on &Position: the second argument unless the first is greater.
PositionMax(a, b) == IF PositionCmp(a, b) = "Greater" THEN a ELSE b

\* Ord::min on &Position: the first argument unless it is greater.
PositionMin(a, b) == IF PositionCmp(a, b) = "Greater" THEN b ELSE a

\* impl PartialOrd for Position: the set of per-axis orderings decides.
PartialCmp(a, b) ==
    IF Len(a) # Len(b) THEN "None"
    ELSE LET ordering == {CoordinateCmp(a[k], b[k]) : k \in DOMAIN a}
         IN  IF Cardinality(ordering) = 3 THEN "None"
             ELSE IF Cardinality(ordering) = 2
                  THEN IF "Equal" \in ordering
                       THEN CHOOSE o \in ordering : o # "Equal"
                       ELSE "None"
             ELSE IF Cardinality(ordering) = 1
                  THEN CHOOSE o \in ordering : TRUE
             ELSE "None"

\* a < b and a <= b as PartialOrd derives them from partial_cmp.
PositionLt(a, b) == PartialCmp(a, b) = "Less"
PositionLe(a, b) == PartialCmp(a, b) \in {"Less", "Equal"}

(***************************************************************************)
(* Shape                                                                   *)
(***************************************************************************)
Point(p) == [type |-> "Point", position |-> p]
BoundingBox(lo, hi) == [type |-> "BoundingBox", lower |-> lo, higher |-> hi]
HyperSphere(c, r) == [type |-> "HyperSphere", center |-> c, radius |-> r]

\* Shape::get_mbb
GetMbb(shape) ==
    IF shape.type = "Point" THEN <<shape.position, shape.position>>
    ELSE IF shape.type = "HyperSphere"
         THEN LET vr == [k \in DOMAIN shape.center |-> shape.radius]
              IN  <<PositionSub(shape.center, vr), PositionAdd(shape.center, vr)>>
    ELSE <<shape.lower, shape.higher>>

\* Shape::contains
Contains(shape, position) ==
    IF shape.type = "Point" THEN shape.position = position
    ELSE IF shape.type = "HyperSphere"
         THEN NormLeq(PositionSub(position, shape.center), shape.radius)
    ELSE PositionLe(shape.lower, position) /\ PositionLe(position, shape.higher)

(***************************************************************************)
(* SpaceIndex                                                              *)
(***************************************************************************)
\* The index primitive's find(key): the fields stored under exactly `key`.
Find(idx, key) == {e \in idx : e.key = key}

\* The index primitive's find_range(start, end): the entries of the
\* inclusive box [start, end].
FindRange(idx, start, end) ==
    {e \in idx : \A k \in DOMAIN e.key : start[k] <= e.key[k] /\ e.key[k] <= end[k]}

Ok(entries, lookup) == [status |-> "Ok", entries |-> entries, lookup |-> lookup]
Err(kind) == [status |-> "Err", kind |-> kind]

PointLookup(p) == [kind |-> "find", key |-> p]
RangeLookup(lo, hi) == [kind |-> "find_range", lower |-> lo, higher |-> hi]

\* SpaceIndex::find_by_shape, the Shape::Point arm.
FindByPoint(idx, shape, view_port) ==
    IF view_port # None /\ ~Contains(view_port, shape.position)
    THEN Err("OutOfViewport")
    ELSE Ok(Find(idx, shape.position), PointLookup(shape.position))

\* SpaceIndex::find_by_shape, the Shape::BoundingBox arm.
FindByBox(idx, shape, view_port) ==
    IF view_port # None
    THEN IF view_port.type = "BoundingBox"
         THEN LET lower == PositionMax(shape.lower, view_port.lower)
                  higher == PositionMin(shape.higher, view_port.higher)
              IN  IF PositionLt(higher, lower)
                  THEN Err("EmptyIntersection")
                  ELSE Ok(FindRange(idx, lower, higher), RangeLookup(lower, higher))
         ELSE Err("InvalidViewport")
    ELSE Ok(FindRange(idx, shape.lower, shape.higher),
            RangeLookup(shape.lower, shape.higher))

\* SpaceIndex::find_by_shape, the Shape::HyperSphere arm.
FindBySphere(idx, shape, view_port) ==
    LET mbb == GetMbb(shape)
        boxed == view_port # None /\ view_port.type = "BoundingBox"
        lower == IF boxed THEN PositionMax(mbb[1], view_port.lower) ELSE mbb[1]
        higher == IF boxed THEN PositionMin(mbb[2], view_port.higher) ELSE mbb[2]
    IN  IF view_port # None /\ view_port.type # "BoundingBox"
        THEN Err("InvalidViewport")
        ELSE Ok({e \in FindRange(idx, lower, higher) :
                    NormLeq(PositionSub(e.key, shape.center), shape.radius)},
                RangeLookup(lower, higher))

\* SpaceIndex::find_by_shape
FindByShape(idx, shape, view_port) ==
    IF shape.type = "Point" THEN FindByPoint(idx, shape, view_port)
    ELSE IF shape.type = "BoundingBox" THEN FindByBox(idx, shape, view_port)
    ELSE FindBySphere(idx, shape, view_port)

(***************************************************************************)
(* The shape queries of one SpaceIndex                                     *)
(***************************************************************************)
\* SpaceFields of the modelled level: one identifier offset per key parity.
Entry(key) == [key |-> key, value |-> (key[1] + key[2]) % 2]

\* The indexes queried: every key of the space, the points of the box and
\* sphere scenarios (the diagonal), and an empty index.
Indexes ==
    { {Entry(k) : k \in Keys},
      {Entry(k) : k \in {p \in Keys : p[1] = p[2]}},
      {} }

\* BoundingBox(lo, hi) with lo <= hi on every axis.
Boxes ==
    {BoundingBox(b[1], b[2]) :
        b \in {c \in Keys \X Keys : \A k \in DOMAIN c[1] : c[1][k] <= c[2][k]}}
Spheres == {HyperSphere(c, r) : c \in Keys, r \in Ticks}
Points == {Point(p) : p \in Keys}

Shapes == Boxes \cup Spheres \cup Points

\* A view port is absent, a box, or (never produced by
\* CoreQueryParameters::view_port, but accepted by the signature) another shape.
ViewPorts == {None} \cup Boxes \cup {HyperSphere(<<1, 1>>, 1), Point(<<1, 1>>)}

InitShape ==
    /\ index \in Indexes
    /\ query = None
    /\ outcome = None
    /\ DbIdle
    /\ AxisIdle
    /\ CoreIdle
    /\ RasterIdle
    /\ BaseIdle
    /\ LateIdle
    /\ TripIdle

\* One call of SpaceIndex::find_by_shape(shape, view_port) on the level.
QueryShape ==
    /\ query = None
    /\ \E shape \in Shapes, view_port \in ViewPorts :
        /\ query' = [shape |-> shape, view_port |-> view_port]
        /\ outcome' = FindByShape(index, shape, view_port)
        /\ UNCHANGED <<index, dbVars, axisVars, coreVars, tripVars, rasterVars, baseVars, lateVars>>

\* The caller drops the result; the level is immutable and can be queried again.
DropShapeResult ==
    /\ query # None
    /\ query' = None
    /\ outcome' = None
    /\ UNCHANGED <<index, dbVars, axisVars, coreVars, tripVars, rasterVars, baseVars, lateVars>>

NextShape == QueryShape \/ DropShapeResult

SpecShape == InitShape /\ [][NextShape]_vars

(***************************************************************************)
(* Claims on SpaceIndex::find_by_shape                                     *)
(***************************************************************************)
\* The squared Euclidean distance between two encoded positions.
RECURSIVE DistanceSquared(_, _, _)
DistanceSquared(a, b, k) ==
    IF k = 0 THEN 0
    ELSE (a[k] - b[k]) * (a[k] - b[k]) + DistanceSquared(a, b, k - 1)

WithinRadius(key, center, radius) ==
    DistanceSquared(key, center, Len(key)) <= radius * radius

InsideBox(key, lo, hi) == \A k \in DOMAIN key : lo[k] <= key[k] /\ key[k] <= hi[k]

Larger(a, b) == IF a >= b THEN a ELSE b
Smaller(a, b) == IF a <= b THEN a ELSE b

\* The per-axis intersection of two boxes.
IntersectionLow(a, b) == [k \in DOMAIN a |-> Larger(a[k], b[k])]
IntersectionHigh(a, b) == [k \in DOMAIN a |-> Smaller(a[k], b[k])]

Asked == query # None

\* C1: find_by_shape with HyperSphere(c, r) and no view port returns exactly
\* the indexed entries whose key is at Euclidean distance at most r from c,
\* on whichever side of the centre the key lies.
C1_SphereReturnsExactlyTheBall ==
    (Asked /\ query.shape.type = "HyperSphere" /\ query.view_port = None)
        => /\ outcome.status = "Ok"
           /\ outcome.entries =
                {e \in index : WithinRadius(e.key, query.shape.center, query.shape.radius)}

\* C2: find_by_shape with BoundingBox(bl, bh) returns exactly the entries
\* inside the box; with a BoundingBox view port the range searched is the
\* per-axis intersection, and no returned key is outside the box or the
\* view port.
C2_BoxReturnsTheIntersection ==
    (Asked /\ query.shape.type = "BoundingBox")
        => /\ query.view_port = None
                => /\ outcome.status = "Ok"
                   /\ outcome.entries =
                        {e \in index : InsideBox(e.key, query.shape.lower, query.shape.higher)}
           /\ (query.view_port.type = "BoundingBox" /\ outcome.status = "Ok")
                => /\ outcome.lookup =
                        RangeLookup(
                            IntersectionLow(query.shape.lower, query.view_port.lower),
                            IntersectionHigh(query.shape.higher, query.view_port.higher))
                   /\ \A e \in outcome.entries :
                        /\ InsideBox(e.key, query.shape.lower, query.shape.higher)
                        /\ InsideBox(e.key, query.view_port.lower, query.view_port.higher)

\* The intersection of the box and the view port is empty on some axis.
EmptyOnSomeAxis(shape, view_port) ==
    \E k \in DOMAIN shape.lower :
        Smaller(shape.higher[k], view_port.higher[k])
            < Larger(shape.lower[k], view_port.lower[k])

\* C3: a BoundingBox and a BoundingBox view port that do not intersect fail
\* with EmptyIntersection and no range lookup; a Point outside the view port
\* fails with OutOfViewport; a box or sphere query under a view port that is
\* not a BoundingBox fails with InvalidViewport.
C3_ViewportErrors ==
    Asked =>
        /\ (/\ query.shape.type = "BoundingBox"
            /\ query.view_port.type = "BoundingBox"
            /\ EmptyOnSomeAxis(query.shape, query.view_port))
                => outcome = Err("EmptyIntersection")
        /\ (/\ query.shape.type = "Point"
            /\ query.view_port.type = "BoundingBox"
            /\ ~InsideBox(query.shape.position, query.view_port.lower, query.view_port.higher))
                => outcome = Err("OutOfViewport")
        /\ (/\ query.shape.type \in {"BoundingBox", "HyperSphere"}
            /\ query.view_port.type \in {"Point", "HyperSphere"})
                => outcome = Err("InvalidViewport")

\* The two other parts of C3 alone: they hold of find_by_shape.
C3_PointAndInvalidViewport ==
    Asked =>
        /\ (/\ query.shape.type = "Point"
            /\ query.view_port.type = "BoundingBox"
            /\ ~InsideBox(query.shape.position, query.view_port.lower, query.view_port.higher))
                => outcome = Err("OutOfViewport")
        /\ (/\ query.shape.type \in {"BoundingBox", "HyperSphere"}
            /\ query.view_port.type \in {"Point", "HyperSphere"})
                => outcome = Err("InvalidViewport")

(***************************************************************************)
(* Decoded values (f64), kept exact as <<numerator, denominator>>          *)
(***************************************************************************)
Rational(n, d) == IF d < 0 THEN <<0 - n, 0 - d>> ELSE <<n, d>>
\* a <= b and a < b by cross-multiplication; the comparison is turned around
\* when exactly one of the two denominators is negative.
RationalLe(a, b) ==
    IF (a[2] > 0) = (b[2] > 0) THEN a[1] * b[2] <= b[1] * a[2]
    ELSE a[1] * b[2] >= b[1] * a[2]
RationalLt(a, b) ==
    IF (a[2] > 0) = (b[2] > 0) THEN a[1] * b[2] < b[1] * a[2]
    ELSE a[1] * b[2] > b[1] * a[2]

(***************************************************************************)
(* Space, CoordinateSystem                                                 *)
(***************************************************************************)
\* Graduation::new: epsilon is (maximum - minimum) / steps.
Graduation(minimum, maximum, steps) ==
    [minimum |-> minimum, maximum |-> maximum, steps |-> steps,
     epsilon |-> Rational(maximum - minimum, steps)]

\* An axis-aligned affine space in metres with its origin at the Universe's.
AffineSpace(name, graduations) == [name |-> name, axes |-> graduations]

\* CoordinateSystem::bounding_box of an AffineSystem.
SpaceBoundingBox(space) ==
    <<[k \in DOMAIN space.axes |-> space.axes[k].minimum],
      [k \in DOMAIN space.axes |-> space.axes[k].maximum]>>

RECURSIVE ProductOfSides(_, _, _)
ProductOfSides(low, high, k) ==
    IF k = 0 THEN 1 ELSE (high[k] - low[k]) * ProductOfSides(low, high, k - 1)

\* CoordinateSystem::volume: the product of the bounding box's sides.
SpaceVolume(space) ==
    LET box == SpaceBoundingBox(space)
    IN  Rational(ProductOfSides(box[1], box[2], Len(space.axes)), 1)

(***************************************************************************)
(* SpaceDB::new                                                            *)
(***************************************************************************)
SpaceSetObject(space_id, position, value) ==
    [space_id |-> space_id, position |-> position, value |-> value]

\* u64 >> scale. A coordinate from 2^31 to 2^32 - 1 is written as its 32-bit
\* pattern v - 2^32, a negative integer: its first bit shifted is 2^30.
ShiftRight(v, scale) ==
    IF v >= 0 THEN v \div (2 ^ scale)
    ELSE IF scale = 0 THEN v
    ELSE (((v + 2147483647) + 1) \div 2 + 2 ^ 30) \div (2 ^ (scale - 1))

\* Position::reduce_precision: every coordinate shifted right by `scale`.
ReducePrecision(position, scale) ==
    [i \in DOMAIN position |-> ShiftRight(position[i], scale)]

\* The map / collect::<HashMap<hash, object>> / drain step of SpaceDB::new:
\* every object's position is reduced, and one object is kept per distinct
\* (space_id, position, value).
ReduceAndDeduplicate(objects, scale) ==
    SetToBag({[o EXCEPT !.position = ReducePrecision(o.position, scale)] :
                o \in BagToSet(objects)})

IndexEntry(objects, scale, shift) ==
    [objects |-> objects, scale |-> <<scale, scale, scale>>, shift |-> shift]

\* exps.sort_unstable_by_key(|v| v[0]): insertion of each scale in order.
RECURSIVE InsertScale(_, _)
InsertScale(sorted, scale) ==
    IF sorted = <<>> THEN <<scale>>
    ELSE IF scale[1] < Head(sorted)[1] THEN <<scale>> \o sorted
    ELSE <<Head(sorted)>> \o InsertScale(Tail(sorted), scale)

RECURSIVE SortScales(_)
SortScales(scales) ==
    IF scales = <<>> THEN <<>>
    ELSE InsertScale(SortScales(Tail(scales)), Head(scales))

\* powers: (scale, bit shift to apply on top of the previous level).
Powers(scales) ==
    LET exps == SortScales(scales)
    IN  [i \in 1..Len(exps) |->
            <<exps[i][1], exps[i][1] - (IF i = 1 THEN 0 ELSE exps[i - 1][1])>>]

\* "Apply fixed scales": one level per entry of powers, `count` levels done.
RECURSIVE ApplyFixedScales(_, _, _, _)
ApplyFixedScales(objects, powers, count, acc) ==
    IF count >= Len(powers) THEN acc
    ELSE LET power == powers[count + 1]
             reduced == ReduceAndDeduplicate(objects, power[2])
             shift == IF count >= 31 THEN 31 ELSE count
         IN  ApplyFixedScales(reduced, powers, count + 1,
                              Append(acc, IndexEntry(reduced, power[1], shift)))

\* "Generate coarser indices": the loop of the automatic mode.
RECURSIVE GenerateScales(_, _, _, _, _)
GenerateScales(objects, count, element_count_target, acc, max_elements) ==
    IF BagCardinality(objects) <= max_elements \/ count > 31 THEN acc
    ELSE LET shift == count
             reduced == ReduceAndDeduplicate(objects, 1)
         IN  IF element_count_target < BagCardinality(reduced)
             THEN GenerateScales(reduced, count + 1, element_count_target, acc,
                                 max_elements)
             ELSE GenerateScales(reduced, count + 1, BagCardinality(reduced) \div 2,
                                 Append(acc, IndexEntry(reduced, count + 1, shift)),
                                 max_elements)

\* SpaceDB::new up to "When done", the first element_count_target being
\* the number of objects instead of half of it.
BuildIndicesWholeTarget(space_objects, scales, max_elements) ==
    IF scales # None
    THEN ApplyFixedScales(space_objects, Powers(scales.value), 0, <<>>)
    ELSE IF max_elements # None
         THEN GenerateScales(space_objects, 0, BagCardinality(space_objects),
                             <<IndexEntry(space_objects, 0, 0)>>, max_elements.value)
         ELSE <<IndexEntry(space_objects, 0, 0)>>

\* SpaceDB::new up to "When done": the (index, scale, shift) list.
BuildIndices(space_objects, scales, max_elements) ==
    IF scales # None
    THEN ApplyFixedScales(space_objects, Powers(scales.value), 0, <<>>)
    ELSE IF max_elements # None
         THEN GenerateScales(space_objects, 0, BagCardinality(space_objects) \div 2,
                             <<IndexEntry(space_objects, 0, 0)>>, max_elements.value)
         ELSE <<IndexEntry(space_objects, 0, 0)>>

\* max_shift: the shift of the last entry of indices, 31 if there is none.
MaxShift(ind) == IF ind = <<>> THEN 31 ELSE ind[Len(ind)].shift

\* 1 << n on a 32-bit signed integer, 0 <= n <= 31.
ShiftLeft32(n) == IF n = 31 THEN (0 - 2147483647) - 1 ELSE 2 ^ n

\* space_volume / f64::from(1 << (max_shift - shift))
\* The quotient keeps the sign of the divisor in its denominator.
ThresholdVolume(space_volume, max_shift, shift) ==
    <<space_volume[1], space_volume[2] * ShiftLeft32(max_shift - shift)>>

SpaceIndex(threshold_volume, scale, idx) ==
    [threshold_volume |-> threshold_volume, scale |-> scale, index |-> idx]

\* The levels in build order, each with its threshold volume.
UnsortedResolutions(space, ind) ==
    [i \in 1..Len(ind) |->
        SpaceIndex(ThresholdVolume(SpaceVolume(space), MaxShift(ind), ind[i].shift),
                   ind[i].scale, ind[i].objects)]

\* resolutions.sort_unstable_by(threshold): every order of the levels that
\* is ascending by threshold; levels of equal threshold may come in any order.
SortUnstableByThreshold(levels) ==
    {[i \in 1..Len(levels) |-> levels[perm[i]]] :
        perm \in {q \in Permutations(1..Len(levels)) :
                    \A i, j \in 1..Len(levels) :
                        i < j => ~RationalLt(levels[q[j]].threshold_volume,
                                             levels[q[i]].threshold_volume)}}

(***************************************************************************)
(* SpaceDB::resolution                                                     *)
(***************************************************************************)
Selected(i) == [status |-> "Ok", index |-> i]

\* self.resolutions.len() - 1 on an empty list underflows.
Panic == [status |-> "Panic"]

\* SpaceDB::highest_resolution (levels are numbered from 1 here).
HighestResolution(levels) == Selected(1)

\* SpaceDB::lowest_resolution
LowestResolution(levels) == IF Len(levels) = 0 THEN Panic ELSE Selected(Len(levels))

\* for i in 0..len { if test(i) { return i; } }: the first index from `i`
\* whose flag is set, 0 if there is none.
RECURSIVE FirstLevel(_, _)
FirstLevel(flags, i) ==
    IF i > Len(flags) THEN 0
    ELSE IF flags[i] THEN i
    ELSE FirstLevel(flags, i + 1)

\* resolution_from_volume with `volume < threshold` for `volume <= threshold`.
ResolutionFromVolumeStrict(levels, volume) ==
    LET i == FirstLevel([k \in 1..Len(levels) |->
                            RationalLt(volume, levels[k].threshold_volume)], 1)
    IN  IF i # 0 THEN Selected(i) ELSE LowestResolution(levels)

\* SpaceDB::resolution_from_volume
ResolutionFromVolume(levels, volume) ==
    LET i == FirstLevel([k \in 1..Len(levels) |->
                            RationalLe(volume, levels[k].threshold_volume)], 1)
    IN  IF i # 0 THEN Selected(i) ELSE LowestResolution(levels)

\* PartialOrd on slices: the first differing element decides, and a proper
\* prefix is smaller.
RECURSIVE SliceLe(_, _)
SliceLe(a, b) ==
    IF a = <<>> THEN TRUE
    ELSE IF b = <<>> THEN FALSE
    ELSE IF Head(a) < Head(b) THEN TRUE
    ELSE IF Head(a) > Head(b) THEN FALSE
    ELSE SliceLe(Tail(a), Tail(b))

\* SpaceDB::resolution_from_scale
ResolutionFromScale(levels, scale) ==
    LET i == FirstLevel([k \in 1..Len(levels) |-> SliceLe(scale, levels[k].scale)], 1)
    IN  IF i # 0 THEN Selected(i) ELSE LowestResolution(levels)

\* SpaceDB::resolution
Resolution(levels, params) ==
    IF params.resolution = None
    THEN IF params.threshold_volume # None
         THEN ResolutionFromVolume(levels, params.threshold_volume.value)
         ELSE LowestResolution(levels)
    ELSE ResolutionFromScale(levels, params.resolution.value)

(***************************************************************************)
(* Building a SpaceDB and selecting a resolution                           *)
(***************************************************************************)
Values == {0, 1}

\* The unit cube of the resolution scenario, and a 1 x 2 x 4 box.
UnitCube ==
    AffineSpace("A", <<Graduation(0, 1, 1024), Graduation(0, 1, 1024),
                       Graduation(0, 1, 1024)>>)
Slab ==
    AffineSpace("B", <<Graduation(0, 1, 1024), Graduation(1, 3, 1024),
                       Graduation(0, 4, 1024)>>)

\* The encoded objects: points of the diagonal, each tagged with a value.
ObjectPool ==
    {SpaceSetObject("A", <<x, x, x>>, v) : x \in 0..MaxCoord, v \in Values}

\* Object lists: up to MaxObjects distinct objects, one of them possibly twice.
ObjectBags ==
    LET sets == {S \in SUBSET ObjectPool : Cardinality(S) <= MaxObjects}
    IN  {SetToBag(S) : S \in sets}
            \cup {SetToBag(S) (+) SetToBag({o}) : S \in sets, o \in ObjectPool}

\* The objects of the pyramid scenarios: the whole diagonal under one
\* identifier, two neighbours, and no object at all.
PyramidBags ==
    { SetToBag({o \in ObjectPool : o.value = 0}),
      SetToBag({o \in ObjectPool : o.value = 0 /\ o.position[1] <= 1}),
      SetToBag({}) }

Scales == {<<s, s, s>> : s \in 0..MaxScale}

RECURSIVE ListsUpTo(_, _)
ListsUpTo(S, n) ==
    IF n = 0 THEN {<<>>}
    ELSE LET shorter == ListsUpTo(S, n - 1)
         IN  shorter \cup {Append(l, x) : l \in {m \in shorter : Len(m) = n - 1}, x \in S}

ScaleLists == ListsUpTo(Scales, MaxScales)

MaxElementsOptions == {None} \cup {Some(n) : n \in 0..MaxObjects}

\* (scales, max_elements): every automatic build, and the explicit builds
\* without max_elements or with a max_elements the object count exceeds.
BuildOptions ==
    {<<None, m>> : m \in MaxElementsOptions}
        \cup {<<Some(l), m>> : l \in ScaleLists, m \in {None, Some(0)}}

\* SpaceDB::new(space, objects, scales, max_elements) for arguments of the
\* given families.
NewSpaceDB(spaces, bags, options) ==
    /\ build = None
    /\ \E space \in spaces, objects \in bags, option \in options :
        LET ind == BuildIndices(objects, option[1], option[2])
        IN  /\ build' = [space |-> space, space_objects |-> objects,
                         scales |-> option[1], max_elements |-> option[2]]
            /\ indices' = ind
            /\ resolutions' \in SortUnstableByThreshold(UnsortedResolutions(space, ind))
    /\ UNCHANGED <<parameters, selected, shapeVars, axisVars, coreVars, tripVars, rasterVars, baseVars, lateVars>>

BuildSpaceDB == NewSpaceDB({UnitCube, Slab}, ObjectBags, BuildOptions)

BuildPyramid ==
    NewSpaceDB({UnitCube}, PyramidBags,
               {o \in BuildOptions : o[1] = None \/ o[2] = None})

\* The SpaceDB is dropped.
DropSpaceDB ==
    /\ build # None
    /\ parameters = None
    /\ build' = None
    /\ indices' = <<>>
    /\ resolutions' = <<>>
    /\ UNCHANGED <<parameters, selected, shapeVars, axisVars, coreVars, tripVars, rasterVars, baseVars, lateVars>>

QueryVolumes == {Rational(n, 4) : n \in 0..MaxVolumeQuarters}

QueryScales == {<<a, b, c>> : a, b, c \in 0..MaxScale}

\* The threshold_volume and resolution fields of CoreQueryParameters.
QueryParameters ==
    {[threshold_volume |-> t, resolution |-> r] :
        t \in {None} \cup {Some(v) : v \in QueryVolumes},
        r \in {None} \cup {Some(x) : x \in QueryScales}}

\* One call of SpaceDB::resolution(parameters).
SelectResolution ==
    /\ build # None
    /\ parameters = None
    /\ \E params \in QueryParameters :
        /\ parameters' = params
        /\ selected' = Resolution(resolutions, params)
    /\ UNCHANGED <<build, indices, resolutions, shapeVars, axisVars, coreVars, tripVars, rasterVars, baseVars, lateVars>>

DropSelection ==
    /\ parameters # None
    /\ parameters' = None
    /\ selected' = None
    /\ UNCHANGED <<build, indices, resolutions, shapeVars, axisVars, coreVars, tripVars, rasterVars, baseVars, lateVars>>

InitDb ==
    ShapeIdle /\ DbIdle /\ AxisIdle /\ CoreIdle /\ TripIdle /\ RasterIdle /\ BaseIdle
        /\ LateIdle

NextBuild == BuildSpaceDB \/ DropSpaceDB

SpecBuild == InitDb /\ [][NextBuild]_vars

NextResolution == BuildPyramid \/ SelectResolution \/ DropSelection

SpecResolution == InitDb /\ [][NextResolution]_vars

(***************************************************************************)
(* Claims on SpaceDB::resolution                                           *)
(***************************************************************************)
Chosen == parameters # None /\ Len(resolutions) > 0

Threshold(i) == resolutions[i].threshold_volume

\* Level i is the first, in list order, whose threshold is at least v.
FirstAtLeast(i, v) ==
    /\ i \in 1..Len(resolutions)
    /\ RationalLe(v, Threshold(i))
    /\ \A j \in 1..(i - 1) : RationalLt(Threshold(j), v)

NoneAtLeast(v) == \A j \in 1..Len(resolutions) : RationalLt(Threshold(j), v)

\* C6: without `resolution`, threshold_volume = v selects the first level
\* whose threshold is >= v, and the last level if none qualifies; with
\* neither, the last level is selected; with both, `resolution` decides.
C6_ResolutionFromVolume ==
    Chosen =>
        /\ (parameters.resolution = None /\ parameters.threshold_volume # None)
            => /\ selected.status = "Ok"
               /\ \/ FirstAtLeast(selected.index, parameters.threshold_volume.value)
                  \/ /\ NoneAtLeast(parameters.threshold_volume.value)
                     /\ selected.index = Len(resolutions)
        /\ (parameters.resolution = None /\ parameters.threshold_volume = None)
            => selected = Selected(Len(resolutions))
        /\ (parameters.resolution # None /\ parameters.threshold_volume # None)
            => selected = Resolution(resolutions,
                                     [parameters EXCEPT !.threshold_volume = None])

\* A threshold_volume selected a level past the first, one it fits under.
C6_Witness ==
    /\ Chosen
    /\ parameters.resolution = None
    /\ parameters.threshold_volume # None
    /\ selected.status = "Ok"
    /\ selected.index > 1
    /\ RationalLe(parameters.threshold_volume.value, Threshold(selected.index))

\* level.scale[i] >= r[i] on every axis i.
ScaleAtLeast(i, r) == \A k \in DOMAIN r : resolutions[i].scale[k] >= r[k]

\* C7: an explicit `resolution` r selects the first level whose scale is >= r
\* on every axis, and the last level if no level is.
C7_ResolutionFromScale ==
    (Chosen /\ parameters.resolution # None)
        => /\ selected.status = "Ok"
           /\ \/ /\ selected.index \in 1..Len(resolutions)
                 /\ ScaleAtLeast(selected.index, parameters.resolution.value)
                 /\ \A j \in 1..(selected.index - 1) :
                        ~ScaleAtLeast(j, parameters.resolution.value)
              \/ /\ \A j \in 1..Len(resolutions) :
                        ~ScaleAtLeast(j, parameters.resolution.value)
                 /\ selected.index = Len(resolutions)

(***************************************************************************)
(* Claims on SpaceDB::new                                                  *)
(***************************************************************************)
Built == build # None

Entries(i) == BagCardinality(resolutions[i].index)

\* C8: from the first level to the last, the threshold volumes are
\* non-decreasing and the level cardinalities non-increasing.
C8_ThresholdsAndCardinalitiesOrdered ==
    Built =>
        \A i, j \in 1..Len(resolutions) :
            i < j => /\ RationalLe(Threshold(i), Threshold(j))
                     /\ Entries(i) >= Entries(j)

\* The threshold half of C8 alone: it holds of every SpaceDB built.
C8_ThresholdsOrdered ==
    Built =>
        \A i, j \in 1..Len(resolutions) : i < j => RationalLe(Threshold(i), Threshold(j))

\* C9: the first level has the smallest scale and the last level the
\* largest, and no two levels of different scales have the same threshold.
C9_HighestResolutionFirst ==
    Built =>
        \A i, j \in 1..Len(resolutions) :
            /\ resolutions[1].scale[1] <= resolutions[i].scale[1]
            /\ resolutions[i].scale[1] <= resolutions[Len(resolutions)].scale[1]
            /\ resolutions[i].scale # resolutions[j].scale
                => Threshold(i) # Threshold(j)

(***************************************************************************)
(* Axis: encode, decode, project_in                                        *)
(*                                                                         *)
(* f64 values are exact rationals here: the rounding of the f64 division   *)
(* and multiplication is not modelled.  A Graduation whose steps is 0 has  *)
(* an infinite or NaN epsilon, written with denominator 0.                 *)
(***************************************************************************)
FromInt(n) == <<n, 1>>
RationalAdd(a, b) == <<a[1] * b[2] + b[1] * a[2], a[2] * b[2]>>
RationalSub(a, b) == <<a[1] * b[2] - b[1] * a[2], a[2] * b[2]>>
RationalMul(a, b) == <<a[1] * b[1], a[2] * b[2]>>

OkValue(v) == [status |-> "Ok", value |-> v]

\* `(d / epsilon) as u64` for d >= 0: the quotient truncated; a NaN quotient
\* (0 / 0, d / NaN) and d / infinity are 0.
TruncatedQuotient(d, epsilon) ==
    IF epsilon[1] = 0 \/ epsilon[2] = 0 THEN 0
    ELSE (d[1] * epsilon[2]) \div (d[2] * epsilon[1])

\* Axis::encode without `d -= min`.
AxisEncodeUnshifted(graduation, val) ==
    IF RationalLt(FromInt(graduation.maximum), val) THEN Err("OutOfBounds")
    ELSE IF RationalLt(val, FromInt(graduation.minimum)) THEN Err("OutOfBounds")
    ELSE OkValue(TruncatedQuotient(val, graduation.epsilon))

\* Axis::encode
AxisEncode(graduation, val) ==
    LET max == FromInt(graduation.maximum)
        min == FromInt(graduation.minimum)
    IN  IF RationalLt(max, val) THEN Err("OutOfBounds")
        ELSE IF RationalLt(val, min) THEN Err("OutOfBounds")
        ELSE OkValue(TruncatedQuotient(RationalSub(val, min), graduation.epsilon))

\* Axis::decode, on an axis with steps > 0.
AxisDecode(graduation, val) ==
    LET max == FromInt(graduation.maximum)
        min == FromInt(graduation.minimum)
        d == RationalAdd(RationalMul(FromInt(val), graduation.epsilon), min)
    IN  IF RationalLt(max, d) THEN Err("OutOfBounds")
        ELSE IF RationalLt(d, min) THEN Err("OutOfBounds")
        ELSE OkValue(d)

\* Axis::project_in, given d = position . unit_vector / unit factor: d is
\* clipped to [min, max], then encoded.
AxisProjectIn(graduation, d) ==
    LET max == FromInt(graduation.maximum)
        min == FromInt(graduation.minimum)
        upper == IF RationalLt(max, d) THEN max ELSE d
        clipped == IF RationalLt(upper, min) THEN min ELSE upper
    IN  AxisEncode(graduation, clipped)

(***************************************************************************)
(* Encoding values on one axis                                             *)
(***************************************************************************)
\* Largest number of steps and largest bound of the small axes, and the
\* largest numerator of the values encoded.
MaxSteps == 3
MaxBound == 2
MaxNumerator == 11

\* The unit axis of the encode scenario and every small graduation,
\* Graduation::new checking neither steps > 0 nor minimum < maximum.
Graduations ==
    {Graduation(0, 1, 1024)}
        \cup {Graduation(lo, hi, n) :
                lo \in (0 - 1)..1, hi \in (0 - 1)..MaxBound, n \in 0..MaxSteps}

AxisValues ==
    {Rational(n, d) : n \in (0 - MaxNumerator)..MaxNumerator, d \in {2, 10}}

InitAxis ==
    /\ axis \in Graduations
    /\ input = None
    /\ coordinate = None
    /\ ShapeIdle
    /\ DbIdle
    /\ CoreIdle
    /\ RasterIdle
    /\ BaseIdle
    /\ LateIdle
    /\ TripIdle

\* One call of Axis::encode(val).
Encode ==
    /\ input = None
    /\ \E val \in AxisValues :
        /\ input' = Some(val)
        /\ coordinate' = AxisEncode(axis, val)
    /\ UNCHANGED <<axis, shapeVars, dbVars, coreVars, tripVars, rasterVars, baseVars, lateVars>>

DropCoordinate ==
    /\ input # None
    /\ input' = None
    /\ coordinate' = None
    /\ UNCHANGED <<axis, shapeVars, dbVars, coreVars, tripVars, rasterVars, baseVars, lateVars>>

NextAxis == Encode \/ DropCoordinate

SpecAxis == InitAxis /\ [][NextAxis]_vars

(***************************************************************************)
(* Claims on Axis::encode                                                  *)
(***************************************************************************)
Encoded == input # None

\* t = floor((v - minimum) / epsilon): t * epsilon <= v - minimum < (t + 1) * epsilon.
IsFloorTick(graduation, v, t) ==
    LET d == RationalSub(v, FromInt(graduation.minimum))
    IN  /\ RationalLe(RationalMul(FromInt(t), graduation.epsilon), d)
        /\ RationalLt(d, RationalMul(FromInt(t + 1), graduation.epsilon))

C10_OutOfRangeWitness ==
    /\ Encoded
    /\ axis = Graduation(0, 1, 1024)
    /\ input.value = <<11, 10>>
    /\ coordinate.status = "Err"

(***************************************************************************)
(* Space: change of base between the Universe and an affine space whose    *)
(* axis k has the k-th Universe unit vector, unit "m" and origin 0         *)
(***************************************************************************)
Universe == [name |-> "Universe", axes |-> <<>>]

\* Ok(the values) if every per-axis result is Ok, the first Err otherwise.
Collect(coordinates) ==
    IF \E k \in DOMAIN coordinates : coordinates[k].status = "Err"
    THEN Err("OutOfBounds")
    ELSE OkValue([k \in DOMAIN coordinates |-> coordinates[k].value])

\* CoordinateSystem::rebase: a decoded Universe position to encoded
\* coordinates of `space`; position . unit_vector of axis k is position[k].
Rebase(space, position) ==
    IF space = Universe THEN OkValue(position)
    ELSE Collect([k \in DOMAIN space.axes |-> AxisProjectIn(space.axes[k], position[k])])

\* CoordinateSystem::absolute_position: the sum over the axes of
\* project_out(position[k]) = unit_vector * decode(position[k]).
AbsolutePosition(space, position) ==
    IF space = Universe THEN OkValue(position)
    ELSE Collect([k \in DOMAIN space.axes |-> AxisDecode(space.axes[k], position[k])])

\* Space::change_base
ChangeBase(position, from, to) ==
    LET absolute == AbsolutePosition(from, position)
    IN  IF absolute.status = "Err" THEN absolute ELSE Rebase(to, absolute.value)

\* CoordinateSystem::encode / decode of an AffineSystem.
SpaceEncode(space, position) ==
    Collect([k \in DOMAIN space.axes |-> AxisEncode(space.axes[k], position[k])])
SpaceDecode(space, position) ==
    Collect([k \in DOMAIN space.axes |-> AxisDecode(space.axes[k], position[k])])

\* CoreQueryParameters::view_port: the (low, high) pair as a BoundingBox
\* rebased from the Universe into `space`; None if absent or not rebased.
ViewPort(view_port, space) ==
    IF view_port = None THEN None
    ELSE LET lower == ChangeBase(view_port.value[1], Universe, space)
             higher == ChangeBase(view_port.value[2], Universe, space)
         IN  IF lower.status = "Err" \/ higher.status = "Err" THEN None
             ELSE BoundingBox(lower.value, higher.value)

\* PartialOrd for Coordinate / Position on CoordinateF64 values.
CoordinateCmpF64(l, r) ==
    IF RationalLt(l, r) THEN "Less" ELSE IF RationalLt(r, l) THEN "Greater" ELSE "Equal"

PartialCmpF64(a, b) ==
    IF Len(a) # Len(b) THEN "None"
    ELSE LET ordering == {CoordinateCmpF64(a[k], b[k]) : k \in DOMAIN a}
         IN  IF Cardinality(ordering) = 3 THEN "None"
             ELSE IF Cardinality(ordering) = 2
                  THEN IF "Equal" \in ordering
                       THEN CHOOSE o \in ordering : o # "Equal"
                       ELSE "None"
             ELSE IF Cardinality(ordering) = 1
                  THEN CHOOSE o \in ordering : TRUE
             ELSE "None"

\* Shape::contains of a BoundingBox of the Universe.
ContainsF64(shape, position) ==
    /\ PartialCmpF64(shape.lower, position) \in {"Less", "Equal"}
    /\ PartialCmpF64(position, shape.higher) \in {"Less", "Equal"}

(***************************************************************************)
(* SpaceDB::get_by_id, SpaceDB::get_by_positions                           *)
(***************************************************************************)
\* The index primitive's find_by_value: the positions stored with `id`.
FindByValue(idx, space_id, id) ==
    {o.position : o \in {e \in BagToSet(idx) : e.space_id = space_id /\ e.value = id}}

\* SpaceIndex::find on a level of a SpaceDB: the fields stored at `key`.
FindFields(idx, key) == {e \in BagToSet(idx) : e.position = key}

\* SpaceDB::get_by_id
SpaceDBGetById(levels, space, id, params) ==
    LET level == Resolution(levels, params)
        view_port == ViewPort(params.view_port, space)
    IN  IF level.status = "Panic" THEN Panic
        ELSE LET objects == FindByValue(levels[level.index].index, space.name, id)
             IN  IF view_port # None
                 THEN OkValue({position \in objects : Contains(view_port, position)})
                 ELSE OkValue(objects)

\* SpaceDB::get_by_positions
SpaceDBGetByPositions(levels, positions, params) ==
    LET level == Resolution(levels, params)
    IN  IF level.status = "Panic" THEN Panic
        ELSE OkValue(UNION {{<<position, fields>> :
                                fields \in FindFields(levels[level.index].index, position)} :
                            position \in positions})

(***************************************************************************)
(* Core: new, get_by_id, get_by_label (one reference space, no             *)
(* output_space)                                                           *)
(***************************************************************************)
\* properties.binary_search_by_key(id): the offset of `id` in the sorted
\* identifier table.
BinarySearch(properties, id) ==
    IF \E i \in DOMAIN properties : properties[i] = id
    THEN OkValue((CHOOSE i \in DOMAIN properties : properties[i] = id) - 1)
    ELSE Err("NotFound")

UsizeMax(a, b) == IF a < b THEN b ELSE a

\* The filter of get_by_label without its test: every result is kept.
KeepLabel(found, offset) == found

\* get_by_label's filter_map: results whose fields.value() is the label's
\* own offset are dropped.
DropLabel(found, offset) == {r \in found : r[2].value # offset}

\* The filter_map over space.decode of Core::get_by_id: positions that do
\* not decode are dropped.
DecodePositionsById(positions, space) ==
    {SpaceDecode(space, p).value :
        p \in {q \in positions : SpaceDecode(space, q).status = "Ok"}}

\* Core::decode_positions without output_space, each result kept with the
\* value offset its Properties reference stands for.
DecodePositions(list, space) ==
    {[position |-> SpaceDecode(space, r[1]).value, value |-> r[2].value] :
        r \in {q \in list : SpaceDecode(space, q[1]).status = "Ok"}}

\* Core::get_by_id
CoreGetById(properties, levels, space, params, id) ==
    LET found == BinarySearch(properties, id)
    IN  IF found.status = "Err" THEN OkValue({})
        ELSE LET positions_by_id == SpaceDBGetById(levels, space, found.value, params)
             IN  IF positions_by_id.status = "Panic" THEN Panic
                 ELSE OkValue(DecodePositionsById(positions_by_id.value, space))

\* The positions of `positions` that change base, in the target base.
Rebased(positions, from, to) ==
    {ChangeBase(p, from, to).value :
        p \in {q \in positions : ChangeBase(q, from, to).status = "Ok"}}

\* Core::get_by_label
CoreGetByLabel(properties, levels, space, params, id) ==
    LET view_port == ViewPort(params.view_port, Universe)
        found == BinarySearch(properties, id)
    IN  IF found.status = "Err" THEN OkValue({})
        ELSE LET offset == found.value
                 label == SpaceDBGetById(levels, space, offset, params)
             IN  IF label.status = "Panic" THEN Panic
                 ELSE LET volume == Rebased(label.value, space, Universe)
                          search_volume ==
                              IF view_port # None
                              THEN {q \in volume : ContainsF64(view_port, q)}
                              ELSE volume
                          p == Rebased(search_volume, Universe, space)
                          r == DropLabel(SpaceDBGetByPositions(levels, p, params).value,
                                         offset)
                      IN  OkValue(DecodePositions(r, space))

(***************************************************************************)
(* The queries of one Core                                                 *)
(***************************************************************************)
\* Largest tick of an object of the core, most objects, and the largest
\* view port coordinate in quarters.
MaxCoreTick == 1
MaxCoreObjects == 2
MaxView == 2

\* The reference space of the core: three axes [0, 2] of 4 steps.
CoreSpace ==
    AffineSpace("A", <<Graduation(0, 2, 4), Graduation(0, 2, 4), Graduation(0, 2, 4)>>)

\* The identifier table, sorted; an object's value is an offset in it.
Properties == <<"a", "b">>

Identifiers == {"a", "b", "z"}

\* The objects handed to Core::new, with decoded positions on the diagonal.
CoreObjectPool ==
    {SpaceSetObject("A", <<Rational(x, 2), Rational(x, 2), Rational(x, 2)>>, v) :
        x \in 0..MaxCoreTick, v \in Values}

CoreObjectLists == {S \in SUBSET CoreObjectPool : Cardinality(S) <= MaxCoreObjects}

\* (scales, max_elements) of Core::new.
CoreOptions ==
    { <<None, None>>, <<None, Some(0)>>,
      <<Some(<< <<0, 0, 0>>, <<1, 1, 1>> >>), None>> }

ViewCoordinates == {Rational(n, 4) : n \in (0 - MaxView)..MaxView}

\* view_port: absent, or a (low, high) pair of the Universe with low <= high.
CoreViewPorts ==
    {None} \cup
    {Some(<< <<b[1], b[1], b[1]>>, <<b[2], b[2], b[2]>> >>) :
        b \in {c \in ViewCoordinates \X ViewCoordinates : RationalLe(c[1], c[2])}}

CoreQueryParameters ==
    {[threshold_volume |-> t, resolution |-> r, view_port |-> v] :
        t \in {None, Some(FromInt(0))},
        r \in {None, Some(<<0, 0, 0>>)},
        v \in CoreViewPorts}

\* Core::new: the objects of the space are encoded and indexed by
\* SpaceDB::new, max_elements being at least the number of identifiers.
CoreNew ==
    /\ build = None
    /\ \E space_objects \in CoreObjectLists, option \in CoreOptions :
        LET filtered == {o \in space_objects : o.space_id = CoreSpace.name}
            max_elements ==
                IF option[2] = None THEN None
                ELSE Some(UsizeMax(option[2].value, Len(Properties)))
        IN  /\ \A o \in filtered : SpaceEncode(CoreSpace, o.position).status = "Ok"
            /\ LET encoded ==
                       SetToBag({[o EXCEPT !.position =
                                        SpaceEncode(CoreSpace, o.position).value] :
                                    o \in filtered})
                   ind == BuildIndices(encoded, option[1], max_elements)
               IN  /\ build' = [space |-> CoreSpace, space_objects |-> encoded,
                                scales |-> option[1], max_elements |-> max_elements]
                   /\ indices' = ind
                   /\ resolutions' \in
                        SortUnstableByThreshold(UnsortedResolutions(CoreSpace, ind))
    /\ UNCHANGED <<parameters, selected, shapeVars, axisVars, coreVars, tripVars, rasterVars, baseVars, lateVars>>

\* One call of Core::get_by_id(parameters, id).
GetById ==
    /\ build # None
    /\ call = None
    /\ \E params \in CoreQueryParameters, id \in Identifiers :
        /\ call' = [op |-> "get_by_id", id |-> id, parameters |-> params]
        /\ results' = CoreGetById(Properties, resolutions, build.space, params, id)
    /\ UNCHANGED <<dbVars, shapeVars, axisVars, tripVars, rasterVars, baseVars, lateVars>>

\* One call of Core::get_by_label(parameters, id).
GetByLabel ==
    /\ build # None
    /\ call = None
    /\ \E params \in CoreQueryParameters, id \in Identifiers :
        /\ call' = [op |-> "get_by_label", id |-> id, parameters |-> params]
        /\ results' = CoreGetByLabel(Properties, resolutions, build.space, params, id)
    /\ UNCHANGED <<dbVars, shapeVars, axisVars, tripVars, rasterVars, baseVars, lateVars>>

DropResults ==
    /\ call # None
    /\ call' = None
    /\ results' = None
    /\ UNCHANGED <<dbVars, shapeVars, axisVars, tripVars, rasterVars, baseVars, lateVars>>

NextCore == CoreNew \/ GetById \/ GetByLabel \/ DropResults

SpecCore == InitDb /\ [][NextCore]_vars

(***************************************************************************)
(* Claims on Core::get_by_id and Core::get_by_label                        *)
(***************************************************************************)
Answered(op) == call # None /\ call.op = op /\ results.status = "Ok"

\* low[k] <= p[k] <= high[k] on every axis k.
InsideViewPort(p, view_port) ==
    \A k \in DOMAIN p :
        /\ RationalLe(view_port[1][k], p[k])
        /\ RationalLe(p[k], view_port[2][k])

\* C4: with a view port set, every decoded position get_by_id returns lies
\* inside the view port box on every axis, wherever the view port lies
\* relative to the axis ranges of the reference space.
C4_GetByIdInsideViewPort ==
    (Answered("get_by_id") /\ call.parameters.view_port # None)
        => \A p \in results.value : InsideViewPort(p, call.parameters.view_port.value)

\* The same, for view ports that lie inside the axis ranges and on ticks:
\* here the positions returned are inside the view port.
C4_OnTicksInsideTheSpace ==
    (/\ Answered("get_by_id")
     /\ call.parameters.view_port # None
     /\ \A c \in {call.parameters.view_port.value[1][1],
                  call.parameters.view_port.value[2][1]} :
            AxisEncode(CoreSpace.axes[1], c).status = "Ok"
                /\ AxisDecode(CoreSpace.axes[1],
                              AxisEncode(CoreSpace.axes[1], c).value) = OkValue(c))
        => \A p \in results.value : InsideViewPort(p, call.parameters.view_port.value)

\* C5: no result of get_by_label(id) has the value offset of id.
C5_LabelItselfNeverReturned ==
    Answered("get_by_label")
        => \A r \in results.value :
                BinarySearch(Properties, call.id) # OkValue(r.value)

\* get_by_label returned another identifier found where the label is.
C5_Witness ==
    /\ Answered("get_by_label")
    /\ results.value # {}
    /\ BinarySearch(Properties, call.id).status = "Ok"
    /\ SpaceDBGetById(resolutions, build.space,
                      BinarySearch(Properties, call.id).value,
                      call.parameters).value # {}

(***************************************************************************)
(* f64 arithmetic with rounding                                            *)
(*                                                                         *)
(* A binary floating-point format of MantissaBits significant bits (f64    *)
(* has 53), round to nearest, ties to even, with an unbounded exponent:    *)
(* every operation computes the exact result and rounds it.                *)
(***************************************************************************)
MantissaBits == 5

\* <<a, d, e>> with a / d in [2^(MantissaBits-1), 2^MantissaBits) and
\* a / d * 2^e the value started from (a > 0, d > 0).
RECURSIVE Normalise(_, _, _)
Normalise(a, d, e) ==
    IF a >= d * 2 ^ MantissaBits THEN Normalise(a, 2 * d, e + 1)
    ELSE IF a < d * 2 ^ (MantissaBits - 1) THEN Normalise(2 * a, d, e - 1)
    ELSE <<a, d, e>>

\* a / d rounded to the nearest integer, ties to even.
RoundHalfEven(a, d) ==
    LET q == a \div d
        rem == a % d
    IN  IF 2 * rem > d \/ (2 * rem = d /\ q % 2 = 1) THEN q + 1 ELSE q

\* The f64 nearest to the rational r.
F64(r) ==
    IF r[1] = 0 THEN <<0, 1>>
    ELSE LET sign == IF r[1] < 0 THEN 0 - 1 ELSE 1
             n == Normalise(sign * r[1], r[2], 0)
             m == RoundHalfEven(n[1], n[2])
         IN  IF n[3] >= 0 THEN <<sign * m * 2 ^ n[3], 1>>
             ELSE <<sign * m, 2 ^ (0 - n[3])>>

F64Add(a, b) == F64(RationalAdd(a, b))
F64Sub(a, b) == F64(RationalSub(a, b))
F64Mul(a, b) == F64(RationalMul(a, b))
\* a / b for b # 0.
F64Div(a, b) == F64(Rational(a[1] * b[2], a[2] * b[1]))

\* Graduation::new for steps > 0: epsilon = (maximum - minimum) / (steps as f64).
GraduationF64(minimum, maximum, steps) ==
    [minimum |-> minimum, maximum |-> maximum, steps |-> steps,
     epsilon |-> F64Div(F64Sub(F64(FromInt(maximum)), F64(FromInt(minimum))),
                        F64(FromInt(steps)))]

\* Axis::encode, each f64 operation rounded.
AxisEncodeF64(graduation, val) ==
    LET max == FromInt(graduation.maximum)
        min == FromInt(graduation.minimum)
    IN  IF RationalLt(max, val) THEN Err("OutOfBounds")
        ELSE IF RationalLt(val, min) THEN Err("OutOfBounds")
        ELSE OkValue(TruncatedQuotient(
                        F64Div(F64Sub(val, min), graduation.epsilon), <<1, 1>>))

\* Axis::decode, each f64 operation rounded.
AxisDecodeF64(graduation, val) ==
    LET max == FromInt(graduation.maximum)
        min == FromInt(graduation.minimum)
        d == F64Add(F64Mul(F64(FromInt(val)), graduation.epsilon), min)
    IN  IF RationalLt(max, d) THEN Err("OutOfBounds")
        ELSE IF RationalLt(d, min) THEN Err("OutOfBounds")
        ELSE OkValue(d)

(***************************************************************************)
(* Round trips on one axis                                                 *)
(***************************************************************************)
\* Most steps of the axes of the round trips, and the values encoded are
\* the f64 nearest to the multiples of 1 / TripGrid.
MaxTripSteps == 6
TripGrid == 8

\* Axes with steps > 0 and minimum < maximum.
TripGraduations ==
    {GraduationF64(b[1], b[2], n) :
        b \in {c \in ((0 - 1)..1) \X ((0 - 1)..MaxBound) : c[1] < c[2]},
        n \in 1..MaxTripSteps}

TripValues ==
    {F64(Rational(n, TripGrid)) : n \in (0 - TripGrid)..(MaxBound * TripGrid)}

\* decode(encode(v)): the error of encode if it fails.
DecodeEncode(graduation, v) ==
    LET there == AxisEncodeF64(graduation, v)
    IN  [from |-> "value", start |-> v, there |-> there,
         back |-> IF there.status = "Ok"
                  THEN AxisDecodeF64(graduation, there.value) ELSE there]

\* encode(decode(t)): the error of decode if it fails.
EncodeDecode(graduation, t) ==
    LET there == AxisDecodeF64(graduation, t)
    IN  [from |-> "tick", start |-> t, there |-> there,
         back |-> IF there.status = "Ok"
                  THEN AxisEncodeF64(graduation, there.value) ELSE there]

InitRoundTrip ==
    /\ axis \in TripGraduations
    /\ input = None
    /\ coordinate = None
    /\ trip = None
    /\ ShapeIdle
    /\ DbIdle
    /\ CoreIdle
    /\ RasterIdle
    /\ BaseIdle
    /\ LateIdle

RoundTripValue ==
    /\ trip = None
    /\ \E v \in TripValues : trip' = DecodeEncode(axis, v)
    /\ UNCHANGED <<axisVars, shapeVars, dbVars, coreVars, rasterVars, baseVars, lateVars>>

RoundTripTick ==
    /\ trip = None
    /\ \E t \in 0..axis.steps : trip' = EncodeDecode(axis, t)
    /\ UNCHANGED <<axisVars, shapeVars, dbVars, coreVars, rasterVars, baseVars, lateVars>>

DropTrip ==
    /\ trip # None
    /\ trip' = None
    /\ UNCHANGED <<axisVars, shapeVars, dbVars, coreVars, rasterVars, baseVars, lateVars>>

NextRoundTrip == RoundTripValue \/ RoundTripTick \/ DropTrip

SpecRoundTrip == InitRoundTrip /\ [][NextRoundTrip]_vars

(***************************************************************************)
(* Claims on the encode / decode round trip                                *)
(***************************************************************************)
\* |a - b| <= bound
Within(a, b, bound) ==
    /\ RationalLe(RationalSub(a, b), bound)
    /\ RationalLe(RationalSub(b, a), bound)

InRange(graduation, v) ==
    /\ RationalLe(FromInt(graduation.minimum), v)
    /\ RationalLe(v, FromInt(graduation.maximum))

\* C11, first half: for v in [minimum, maximum], decode(encode(v)) succeeds
\* and is within epsilon of v.
C11_DecodeEncodeWithinEpsilon ==
    (trip # None /\ trip.from = "value" /\ InRange(axis, trip.start))
        => /\ trip.back.status = "Ok"
           /\ Within(trip.back.value, trip.start, axis.epsilon)

\* C11: the first half, and for every tick t in [0, steps],
\* encode(decode(t)) = t.
C11_RoundTrip ==
    /\ C11_DecodeEncodeWithinEpsilon
    /\ (trip # None /\ trip.from = "tick") => trip.back = OkValue(trip.start)

(***************************************************************************)
(* Round trips between two spaces                                          *)
(***************************************************************************)
\* Most steps of an axis of the spaces converted between.
MaxBaseSteps == 2

\* A cube [0, maximum]^3 of `steps` steps per axis.
Cube(name, maximum, steps) ==
    AffineSpace(name, <<Graduation(0, maximum, steps), Graduation(0, maximum, steps),
                        Graduation(0, maximum, steps)>>)

\* The spaces positions start from, and the spaces they are converted to:
\* the same cube, a cube of half the side, a cube of coarser steps, and
\* the Universe.
SourceSpaces == {Cube("A", 4, MaxBaseSteps), Cube("B", 1, MaxBaseSteps)}
TargetSpaces == SourceSpaces \cup {Cube("C", 4, 1), Universe}

\* Every encoded position of an affine space: a tick of 0..steps per axis.
EncodedPositions(space) ==
    {p \in (0..space.axes[1].steps) \X (0..space.axes[2].steps)
            \X (0..space.axes[3].steps) : TRUE}

\* change_base(change_base(p, from, to), to, from): the first error met.
ThereAndBack(position, from, to) ==
    LET there == ChangeBase(position, from, to)
    IN  [from |-> from, to |-> to, start |-> position, there |-> there,
         back |-> IF there.status = "Ok"
                  THEN ChangeBase(there.value, to, from) ELSE there]

RoundTripBase ==
    /\ trip = None
    /\ \E from \in SourceSpaces, to \in TargetSpaces :
        \E position \in EncodedPositions(from) :
            trip' = ThereAndBack(position, from, to)
    /\ UNCHANGED <<axisVars, shapeVars, dbVars, coreVars, rasterVars, baseVars, lateVars>>

DropBaseTrip ==
    /\ trip # None
    /\ trip' = None
    /\ UNCHANGED <<axisVars, shapeVars, dbVars, coreVars, rasterVars, baseVars, lateVars>>

NextChangeBase == RoundTripBase \/ DropBaseTrip

SpecChangeBase == InitDb /\ [][NextChangeBase]_vars

(***************************************************************************)
(* Claims on Space::change_base                                            *)
(***************************************************************************)
\* Encoded positions a and b differ by at most one tick on every axis.
WithinOneTick(a, b) ==
    \A k \in DOMAIN a : a[k] - b[k] <= 1 /\ b[k] - a[k] <= 1

\* C12: change_base(change_base(p, A, B), B, A) succeeds and is within one
\* tick of p on every axis, wherever the Universe image of p lies relative
\* to the axis ranges of B.
C12_ChangeBaseRoundTrip ==
    trip # None
        => /\ trip.back.status = "Ok"
           /\ WithinOneTick(trip.back.value, trip.start)

\* The Universe image of the start of the round trip lies outside the axis
\* ranges of the space it is converted to.
ImageOutside ==
    LET image == AbsolutePosition(trip.from, trip.start)
    IN  /\ trip.to # Universe
        /\ image.status = "Ok"
        /\ \E k \in 1..3 : RationalLt(FromInt(trip.to.axes[k].maximum), image.value[k])

\* The part of C12 on images outside the ranges of B.
C12_OutsideTheRanges ==
    (trip # None /\ ImageOutside)
        => /\ trip.back.status = "Ok"
           /\ WithinOneTick(trip.back.value, trip.start)

\* The same, when B is A itself or the Universe: the round trip is exact.
C12_ThroughTheUniverse ==
    (trip # None /\ trip.to \in {trip.from, Universe})
        => trip.back = OkValue(trip.start)

(***************************************************************************)
(* Shape::rasterise                                                        *)
(***************************************************************************)
\* Shape::gen's inner `next`, from axis i down to the first: the state is
\* incremented on axis i; when it reaches higher[i] the axis restarts from
\* lower[i] and the carry goes to the axis before. None when the carry
\* leaves the first axis (`false`).
RECURSIVE GenNext(_, _, _, _)
GenNext(lower, higher, state, i) ==
    IF i = 0 THEN None
    ELSE LET incremented == state[i] + 1
         IN  IF CoordinateCmp(incremented, higher[i]) \in {"Greater", "Equal"}
             THEN GenNext(lower, higher, [state EXCEPT ![i] = lower[i]], i - 1)
             ELSE Some([state EXCEPT ![i] = incremented])

\* Shape::gen's while loop: every state `next` produces is pushed.
RECURSIVE GenLoop(_, _, _, _)
GenLoop(lower, higher, current, positions) ==
    LET following == GenNext(lower, higher, current, Len(lower))
        \* results.push(current.clone()): one more position in the list
        pushed == Append(positions, following.value)
    IN  IF following = None THEN positions
        ELSE IF Len(pushed) = Len(positions) + 1
             THEN GenLoop(lower, higher, following.value, pushed)
        ELSE positions

\* Shape::gen's inner `first`: the coordinates of `lower`, pushed one by one.
RECURSIVE FirstUpTo(_, _)
FirstUpTo(lower, k) ==
    IF k = 0 THEN <<>> ELSE Append(FirstUpTo(lower, k - 1), lower[k])

First(lower) == FirstUpTo(lower, Len(lower))

\* Shape::gen: `lower` is pushed first, then whatever the loop produces.
Gen(lower, higher) == GenLoop(First(lower), higher, First(lower), <<First(lower)>>)

\* The positions of a sequence for which keep holds, in their order.
RECURSIVE FilterInside(_, _)
FilterInside(positions, shape) ==
    IF positions = <<>> THEN <<>>
    ELSE LET rest == FilterInside(Tail(positions), shape)
         IN  IF NormLeq(PositionSub(Head(positions), shape.center), shape.radius)
             THEN <<Head(positions)>> \o rest ELSE rest

\* Shape::rasterise of a sphere without its filter.
RasteriseUnfiltered(shape) ==
    IF shape.type = "Point" THEN OkValue(<<shape.position>>)
    ELSE OkValue(Gen(GetMbb(shape)[1], GetMbb(shape)[2]))

\* Shape::rasterise
Rasterise(shape) ==
    IF shape.type = "Point" THEN OkValue(<<shape.position>>)
    ELSE IF shape.type = "HyperSphere"
         THEN OkValue(FilterInside(Gen(GetMbb(shape)[1], GetMbb(shape)[2]), shape))
    ELSE OkValue(Gen(shape.lower, shape.higher))

\* Largest radius of a rasterised sphere.
MaxRadius == 4

\* The shapes rasterised: every box, lower <= higher or not, every point
\* and the spheres of radius 0..MaxRadius.
RasterShapes ==
    {BoundingBox(b[1], b[2]) : b \in Keys \X Keys}
        \cup {HyperSphere(c, r) : c \in Keys, r \in 0..MaxRadius}
        \cup Points

RasteriseShape ==
    /\ raster = None
    /\ \E shape \in RasterShapes :
        raster' = [shape |-> shape, positions |-> Rasterise(shape)]
    /\ UNCHANGED <<axisVars, shapeVars, dbVars, coreVars, tripVars, baseVars, lateVars>>

DropRaster ==
    /\ raster # None
    /\ raster' = None
    /\ UNCHANGED <<axisVars, shapeVars, dbVars, coreVars, tripVars, baseVars, lateVars>>

NextRasterise == RasteriseShape \/ DropRaster

SpecRasterise == InitDb /\ [][NextRasterise]_vars

(***************************************************************************)
(* Claims on Shape::rasterise                                              *)
(***************************************************************************)
\* The set of the elements of a sequence.
Range(sequence) == {sequence[k] : k \in DOMAIN sequence}

\* The shapes C13 is about: a box with lower <= higher, a point, a sphere.
WellFormed(shape) ==
    shape.type = "BoundingBox" => PositionLe(shape.lower, shape.higher)

\* C13: every position of Shape::rasterise() is contained in the shape
\* (points, boxes with lower <= higher, spheres), and the positions of a
\* sphere are positions of the rasterisation of its minimum bounding box.
C13_RasterisedPositionsContained ==
    (raster # None /\ WellFormed(raster.shape))
        => /\ raster.positions.status = "Ok"
           /\ \A p \in Range(raster.positions.value) : Contains(raster.shape, p)
           /\ raster.shape.type = "HyperSphere"
                => Range(raster.positions.value) \subseteq
                    Range(Rasterise(BoundingBox(GetMbb(raster.shape)[1],
                                                GetMbb(raster.shape)[2])).value)

\* A sphere was rasterised and its filter dropped positions of the box.
C13_Witness ==
    /\ raster # None
    /\ raster.shape.type = "HyperSphere"
    /\ raster.positions.value # <<>>
    /\ Len(raster.positions.value) <
        Len(Gen(GetMbb(raster.shape)[1], GetMbb(raster.shape)[2]))

\* A box with lower < higher on an axis was rasterised.
C13_BoxWitness ==
    /\ raster # None
    /\ raster.shape.type = "BoundingBox"
    /\ PositionLt(raster.shape.lower, raster.shape.higher)
    /\ Len(raster.positions.value) > 1

\* The lattice points p with lower[k] <= p[k] < higher[k] on every axis.
Lattice(lower, higher) ==
    {p \in Keys : \A k \in DOMAIN p : lower[k] <= p[k] /\ p[k] < higher[k]}

\* The positions are in odometer order, the last axis varying fastest:
\* each one is before the following ones in the order of the axes.
OdometerOrder(positions) ==
    \A i, j \in DOMAIN positions :
        i < j => PositionCmp(positions[i], positions[j]) = "Less"

ExactlyTheLattice ==
    /\ raster.positions.status = "Ok"
    /\ Range(raster.positions.value) = Lattice(raster.shape.lower, raster.shape.higher)
    /\ Len(raster.positions.value) = Cardinality(Range(raster.positions.value))
    /\ OdometerOrder(raster.positions.value)

\* C14: Shape::rasterise() of BoundingBox(lower, higher) returns exactly the
\* lattice points with lower[k] <= p[k] < higher[k] on every axis, each
\* once, in odometer order with the last axis varying fastest.
C14_BoxLattice ==
    (raster # None /\ raster.shape.type = "BoundingBox") => ExactlyTheLattice

\* The same for the boxes with lower[k] < higher[k] on every axis, whose
\* lattice is not empty.
C14_NonEmptyBoxLattice ==
    (/\ raster # None
     /\ raster.shape.type = "BoundingBox"
     /\ \A k \in DOMAIN raster.shape.lower :
            raster.shape.lower[k] < raster.shape.higher[k])
        => ExactlyTheLattice

(***************************************************************************)
(* Core with several reference spaces: the list of (space name, positions) *)
(* entries that get_by_id and get_by_label return (no output_space)        *)
(***************************************************************************)
\* The for loop of Core::get_by_id over self.space_db, from the k-th
\* SpaceDB on: one (name, decoded positions) entry is pushed per SpaceDB.
RECURSIVE EntriesById(_, _, _, _, _)
EntriesById(space_db, offset, params, k, entries) ==
    IF k > Len(space_db) THEN OkValue(entries)
    ELSE LET s == space_db[k]
             positions_by_id == SpaceDBGetById(s.levels, s.space, offset, params)
         IN  IF positions_by_id.status = "Panic" THEN Panic
             ELSE EntriesById(space_db, offset, params, k + 1,
                      Append(entries,
                             <<s.name, DecodePositionsById(positions_by_id.value, s.space)>>))

\* Core::get_by_id with the loop entered whether or not the identifier is
\* registered.
CoreGetByIdUnguarded(properties, space_db, params, id) ==
    LET found == BinarySearch(properties, id)
    IN  EntriesById(space_db,
                    IF found.status = "Ok" THEN found.value ELSE Len(properties),
                    params, 1, <<>>)

\* Core::get_by_id on the whole space_db list: `results` stays empty when
\* the identifier is not registered.
CoreGetByIdEntries(properties, space_db, params, id) ==
    LET found == BinarySearch(properties, id)
    IN  IF found.status = "Err" THEN OkValue(<<>>)
        ELSE EntriesById(space_db, found.value, params, 1, <<>>)

\* get_by_label's search_volume: the positions of the label in every
\* SpaceDB, in Universe coordinates, flattened.
SearchVolume(space_db, offset, params) ==
    UNION {Rebased(SpaceDBGetById(space_db[k].levels, space_db[k].space,
                                  offset, params).value,
                   space_db[k].space, Universe) :
           k \in {j \in DOMAIN space_db :
                    SpaceDBGetById(space_db[j].levels, space_db[j].space,
                                   offset, params).status = "Ok"}}

\* The second for loop of Core::get_by_label over self.space_db.
RECURSIVE EntriesByLabel(_, _, _, _, _, _)
EntriesByLabel(space_db, offset, params, volume, k, entries) ==
    IF k > Len(space_db) THEN OkValue(entries)
    ELSE LET s == space_db[k]
             view_port == ViewPort(params.view_port, Universe)
             search_volume ==
                 IF view_port # None
                 THEN {q \in volume : ContainsF64(view_port, q)}
                 ELSE volume
             p == Rebased(search_volume, Universe, s.space)
             r == SpaceDBGetByPositions(s.levels, p, params)
         IN  IF r.status = "Panic" THEN Panic
             ELSE EntriesByLabel(space_db, offset, params, volume, k + 1,
                      Append(entries,
                             <<s.name, DecodePositions(DropLabel(r.value, offset), s.space)>>))

\* Core::get_by_label on the whole space_db list.
CoreGetByLabelEntries(properties, space_db, params, id) ==
    LET found == BinarySearch(properties, id)
    IN  IF found.status = "Err" THEN OkValue(<<>>)
        ELSE IF \E k \in DOMAIN space_db :
                    Resolution(space_db[k].levels, params).status = "Panic"
             THEN Panic
        ELSE EntriesByLabel(space_db, found.value, params,
                            SearchVolume(space_db, found.value, params), 1, <<>>)

\* The reference spaces of the core, in the order handed to Core::new.
CoreSpaces == <<CoreSpace, Cube("B", 1, 2)>>

\* The objects handed to Core::new, in either space.
CoresObjectPool ==
    {SpaceSetObject(CoreSpaces[k].name, <<Rational(x, 2), Rational(x, 2), Rational(x, 2)>>, v) :
        k \in DOMAIN CoreSpaces, x \in 0..MaxCoreTick, v \in Values}

CoresObjectLists == {S \in SUBSET CoresObjectPool : Cardinality(S) <= MaxCoreObjects}

\* The query parameters: no view port, or the box [0, 1/2]^3 of the Universe.
CoresQueryParameters ==
    {[threshold_volume |-> t, resolution |-> r, view_port |-> v] :
        t \in {None, Some(FromInt(0))},
        r \in {None, Some(<<0, 0, 0>>), Some(<<1, 1, 1>>)},
        v \in {None, Some(<< <<FromInt(0), FromInt(0), FromInt(0)>>,
                             <<Rational(1, 2), Rational(1, 2), Rational(1, 2)>> >>)}}

\* The objects of `space`, encoded: Core::new's filter and set_position.
EncodedObjects(space_objects, space) ==
    SetToBag({[o EXCEPT !.position = SpaceEncode(space, o.position).value] :
                o \in {f \in space_objects : f.space_id = space.name}})

\* The SpaceDB lists Core::new can build: one SpaceDB per space in the
\* order of `spaces`, each with its levels in an order the sort allows.
SpaceDBLists(space_objects, scales, max_elements) ==
    {<<[name |-> CoreSpaces[1].name, space |-> CoreSpaces[1], levels |-> l[1]],
       [name |-> CoreSpaces[2].name, space |-> CoreSpaces[2], levels |-> l[2]]>> :
        l \in SortUnstableByThreshold(UnsortedResolutions(CoreSpaces[1],
                  BuildIndices(EncodedObjects(space_objects, CoreSpaces[1]),
                               scales, max_elements)))
              \X SortUnstableByThreshold(UnsortedResolutions(CoreSpaces[2],
                  BuildIndices(EncodedObjects(space_objects, CoreSpaces[2]),
                               scales, max_elements)))}

\* Core::new over the two spaces.
CoresNew ==
    /\ build = None
    /\ \E space_objects \in CoresObjectLists, option \in CoreOptions :
        LET max_elements ==
                IF option[2] = None THEN None
                ELSE Some(UsizeMax(option[2].value, Len(Properties)))
        IN  /\ \A o \in space_objects :
                \A k \in DOMAIN CoreSpaces :
                    o.space_id = CoreSpaces[k].name
                        => SpaceEncode(CoreSpaces[k], o.position).status = "Ok"
            /\ \E space_db \in SpaceDBLists(space_objects, option[1], max_elements) :
                build' = [spaces |-> CoreSpaces, properties |-> Properties,
                          space_db |-> space_db]
    /\ UNCHANGED <<indices, resolutions, parameters, selected, shapeVars, axisVars,
                   coreVars, tripVars, rasterVars, baseVars, lateVars>>

\* One call of Core::get_by_id(parameters, id).
CoresGetById ==
    /\ build # None
    /\ call = None
    /\ \E params \in CoresQueryParameters, id \in Identifiers :
        /\ call' = [op |-> "get_by_id", id |-> id, parameters |-> params]
        /\ results' = CoreGetByIdEntries(build.properties, build.space_db, params, id)
    /\ UNCHANGED <<dbVars, shapeVars, axisVars, tripVars, rasterVars, baseVars, lateVars>>

\* One call of Core::get_by_label(parameters, id).
CoresGetByLabel ==
    /\ build # None
    /\ call = None
    /\ \E params \in CoresQueryParameters, id \in Identifiers :
        /\ call' = [op |-> "get_by_label", id |-> id, parameters |-> params]
        /\ results' = CoreGetByLabelEntries(build.properties, build.space_db, params, id)
    /\ UNCHANGED <<dbVars, shapeVars, axisVars, tripVars, rasterVars, baseVars, lateVars>>

NextCores == CoresNew \/ CoresGetById \/ CoresGetByLabel \/ DropResults

SpecCores == InitDb /\ [][NextCores]_vars

(***************************************************************************)
(* Claims on the entries of Core::get_by_id and Core::get_by_label         *)
(***************************************************************************)
Registered(id) == \E i \in DOMAIN build.properties : build.properties[i] = id

C15_AbsentWitness ==
    /\ call # None
    /\ ~Registered(call.id)
    /\ call.op = "get_by_label"
    /\ \E k \in DOMAIN build.space_db :
        \E i \in DOMAIN build.space_db[k].levels :
            BagToSet(build.space_db[k].levels[i].index) # {}

(***************************************************************************)
(* DataBase: the catalogs of reference spaces and of cores                 *)
(***************************************************************************)
\* Most index files named in one DataBase::load, and most spaces or cores
\* handed to DataBase::new.
MaxIndices == 2

\* Record<String> for Space: a space is registered under its name.
SpaceKey(space) == space.name

\* A core is registered under its name.
CoreKey(core) == core.name

\* reference_spaces.find(name): the registered spaces of that key.
FindSpaces(reference_spaces, name) ==
    SelectSeq(reference_spaces, LAMBDA space : SpaceKey(space) = name)

\* cores.find(name): the registered cores of that key.
FindCores(cores, name) == SelectSeq(cores, LAMBDA core : CoreKey(core) = name)

\* DataBase::new: both lists are indexed as they are.
DataBaseNew(spaces, cores) == [reference_spaces |-> spaces, cores |-> cores]

\* check_exactly_one, without its test on more than one element.
CheckFirst(list) == IF list = <<>> THEN Err("No") ELSE OkValue(list[1])

\* DataBase::check_exactly_one
CheckExactlyOne(list) ==
    IF Len(list) > 1 THEN Err("Multiple")
    ELSE IF list = <<>> THEN Err("No")
    ELSE OkValue(list[1])

\* DataBase::space
DataBaseSpace(db, name) ==
    IF name = Universe.name THEN OkValue(Universe)
    ELSE CheckExactlyOne(FindSpaces(db.reference_spaces, name))

\* DataBase::core
DataBaseCore(db, name) == CheckExactlyOne(FindCores(db.cores, name))

\* The spaces declared by the index files: "A" in two definitions, "B",
\* and a space a file declares under the name of the Universe.
SpaceA == Cube("A", 2, 2)
SpaceAOther == Cube("A", 1, 2)
SpaceB == Cube("B", 1, 2)
SpaceNamedUniverse == Cube("Universe", 1, 1)

Core(name) == [name |-> name]

\* DataBase::load_core: what each index file deserialises to; any other
\* file name fails to open.
LoadCore(name) ==
    IF name = "one" THEN OkValue(<< <<SpaceA>>, Core("one") >>)
    ELSE IF name = "two" THEN OkValue(<< <<SpaceA, SpaceB>>, Core("two") >>)
    ELSE IF name = "other" THEN OkValue(<< <<SpaceAOther>>, Core("other") >>)
    ELSE IF name = "copy" THEN OkValue(<< <<SpaceB, SpaceB>>, Core("one") >>)
    ELSE Err("Io")

IndexNames == {"one", "two", "other", "copy", "missing"}

\* The for loop of DataBase::load over core_spaces, from the k-th on;
\* `spaces` is the HashMap, as the set of its values.
RECURSIVE MergeSpaces(_, _, _)
MergeSpaces(core_spaces, k, spaces) ==
    IF k > Len(core_spaces) THEN OkValue(spaces)
    ELSE LET core_space == core_spaces[k]
             registered == {space \in spaces : space.name = core_space.name}
         IN  IF registered # {}
             THEN IF (CHOOSE space \in registered : TRUE) # core_space
                  THEN Err("DefinedTwice")
                  ELSE MergeSpaces(core_spaces, k + 1, spaces)
             ELSE MergeSpaces(core_spaces, k + 1, spaces \cup {core_space})

\* The for loop of DataBase::load over indices, from the k-th on.
RECURSIVE LoadFrom(_, _, _, _)
LoadFrom(indices_list, k, spaces, cores) ==
    IF k > Len(indices_list) THEN OkValue([spaces |-> spaces, cores |-> cores])
    ELSE LET loaded == LoadCore(indices_list[k])
         IN  IF loaded.status = "Err" THEN loaded
             ELSE LET merged == MergeSpaces(loaded.value[1], 1, spaces)
                  IN  IF merged.status = "Err" THEN merged
                      ELSE LoadFrom(indices_list, k + 1, merged.value,
                                    Append(cores, loaded.value[2]))

\* spaces.drain().collect(): the values of the HashMap in any order.
Drained(spaces) ==
    {list \in [1..Cardinality(spaces) -> spaces] :
        \A i, j \in DOMAIN list : i # j => list[i] # list[j]}

\* DataBase::load: every database it may return for `indices_list`, or
\* the error.
Load(indices_list) ==
    LET loaded == LoadFrom(indices_list, 1, {}, <<>>)
    IN  IF loaded.status = "Err" THEN {loaded}
        ELSE {OkValue(DataBaseNew(spaces, loaded.value.cores)) :
                spaces \in Drained(loaded.value.spaces)}

\* The sequences of at most MaxIndices elements of a set.
ListsOf(set) == UNION {[1..n -> set] : n \in 0..MaxIndices}

DataBaseLoad ==
    /\ database = None
    /\ \E indices_list \in ListsOf(IndexNames) :
        \E loaded \in Load(indices_list) :
            database' = [by |-> "load", indices |-> indices_list, result |-> loaded]
    /\ UNCHANGED <<answer, axisVars, shapeVars, dbVars, coreVars, tripVars, rasterVars, lateVars>>

\* DataBase::new called directly with lists of spaces and of cores.
DataBaseCreate ==
    /\ database = None
    /\ \E spaces \in ListsOf({SpaceA, SpaceAOther, SpaceB, SpaceNamedUniverse}),
          cores \in ListsOf({Core("one"), Core("two")}) :
            database' = [by |-> "new", indices |-> <<>>,
                         result |-> OkValue(DataBaseNew(spaces, cores))]
    /\ UNCHANGED <<answer, axisVars, shapeVars, dbVars, coreVars, tripVars, rasterVars, lateVars>>

Loaded == database # None /\ database.result.status = "Ok"

\* One call of DataBase::space(name).
LookupSpace ==
    /\ Loaded
    /\ answer = None
    /\ \E name \in {"A", "B", "Universe", "Z"} :
        answer' = [op |-> "space", name |-> name,
                   result |-> DataBaseSpace(database.result.value, name)]
    /\ UNCHANGED <<database, axisVars, shapeVars, dbVars, coreVars, tripVars, rasterVars, lateVars>>

\* One call of DataBase::core(name).
LookupCore ==
    /\ Loaded
    /\ answer = None
    /\ \E name \in {"one", "two", "zero"} :
        answer' = [op |-> "core", name |-> name,
                   result |-> DataBaseCore(database.result.value, name)]
    /\ UNCHANGED <<database, axisVars, shapeVars, dbVars, coreVars, tripVars, rasterVars, lateVars>>

DropAnswer ==
    /\ answer # None
    /\ answer' = None
    /\ UNCHANGED <<database, axisVars, shapeVars, dbVars, coreVars, tripVars, rasterVars, lateVars>>

NextDataBase == DataBaseLoad \/ DataBaseCreate \/ LookupSpace \/ LookupCore \/ DropAnswer

SpecDataBase == InitDb /\ [][NextDataBase]_vars

(***************************************************************************)
(* Claims on the catalogs                                                  *)
(***************************************************************************)
\* The registered spaces of a name, as positions in the catalog.
RegisteredAs(name) ==
    {i \in DOMAIN database.result.value.reference_spaces :
        database.result.value.reference_spaces[i].name = name}

\* C16: space(name) returns the one space registered under the name, a
\* not-found error when there is none and an ambiguous error when there
\* are several; "Universe" is answered with the singleton whatever the
\* catalog holds under that name.
C16_SpaceLookup ==
    (answer # None /\ answer.op = "space")
        => IF answer.name = "Universe" THEN answer.result = OkValue(Universe)
           ELSE IF RegisteredAs(answer.name) = {} THEN answer.result = Err("No")
           ELSE IF Cardinality(RegisteredAs(answer.name)) > 1
                THEN answer.result = Err("Multiple")
           ELSE /\ answer.result.status = "Ok"
                /\ \A i \in RegisteredAs(answer.name) :
                    answer.result.value = database.result.value.reference_spaces[i]

\* A name registered twice was looked up.
C16_Witness ==
    /\ answer # None
    /\ answer.op = "space"
    /\ answer.name # "Universe"
    /\ Cardinality(RegisteredAs(answer.name)) > 1

\* "Universe" was looked up in a catalog that holds two spaces of that name.
C16_UniverseWitness ==
    /\ answer # None
    /\ answer.op = "space"
    /\ answer.name = "Universe"
    /\ Cardinality(RegisteredAs("Universe")) > 1

\* No two elements of the list have the same name.
UniqueNames(list) ==
    \A i, j \in DOMAIN list : list[i].name = list[j].name => i = j

LoadSucceeded == Loaded /\ database.by = "load"

\* The names of the spaces the index files name declare differently.
Conflicting(indices_list) ==
    \E i, j \in DOMAIN indices_list :
        /\ LoadCore(indices_list[i]).status = "Ok"
        /\ LoadCore(indices_list[j]).status = "Ok"
        /\ \E k \in DOMAIN LoadCore(indices_list[i]).value[1],
              l \in DOMAIN LoadCore(indices_list[j]).value[1] :
            LET a == LoadCore(indices_list[i]).value[1][k]
                b == LoadCore(indices_list[j]).value[1][l]
            IN  a.name = b.name /\ a # b

\* C17: after a successful load every space name and every core name is
\* registered once, so that no lookup is ambiguous; index files that
\* declare a space name differently make the load fail.
C17_CatalogsUnique ==
    /\ LoadSucceeded
        => /\ UniqueNames(database.result.value.reference_spaces)
           /\ UniqueNames(database.result.value.cores)
    /\ (LoadSucceeded /\ answer # None) => answer.result # Err("Multiple")
    /\ (database # None /\ database.by = "load" /\ Conflicting(database.indices))
        => database.result.status = "Err"

\* The part of C17 on the reference spaces: they are registered once, and
\* differing declarations of a name fail the load.
C17_SpacesUnique ==
    /\ LoadSucceeded => UniqueNames(database.result.value.reference_spaces)
    /\ (LoadSucceeded /\ answer # None /\ answer.op = "space")
        => answer.result # Err("Multiple")
    /\ (database # None /\ database.by = "load" /\ Conflicting(database.indices))
        => database.result.status = "Err"

(***************************************************************************)
(* Claims on the levels SpaceDB::new builds                                *)
(***************************************************************************)
Explicit == Built /\ build.scales # None
Automatic == Built /\ build.scales = None /\ build.max_elements # None

\* A level of shift 0 holds the objects as they were handed to the build,
\* no bit of their positions removed.
FullResolutionLevel ==
    \E i \in DOMAIN indices :
        /\ indices[i].shift = 0
        /\ BagToSet(indices[i].objects) = BagToSet(build.space_objects)

\* The levels do not depend on max_elements.
MaxElementsIgnored ==
    \A m \in MaxElementsOptions :
        BuildIndices(build.space_objects, build.scales, m) = indices

\* C18: a SpaceDB built with scales = Some(list) has the requested levels on
\* top of a full-resolution level: a level of shift 0 with the positions at
\* full encoded precision, whether or not 0 is in the list; and
\* max_elements has no effect on the build.
C18_ScalesOnTopOfFullResolution ==
    Explicit => (FullResolutionLevel /\ MaxElementsIgnored)

\* The part of C18 on max_elements: it is ignored when scales are given.
C18_MaxElementsIgnored ==
    Explicit => MaxElementsIgnored

\* The full-resolution level is there when 0 is in the list of scales.
C18_FullResolutionWhenAsked ==
    (Explicit /\ \E k \in DOMAIN build.scales.value : build.scales.value[k] = <<0, 0, 0>>)
        => FullResolutionLevel

\* SpaceDB::new in automatic mode: no scales, any max_elements.
BuildAutomatic ==
    NewSpaceDB({UnitCube, Slab}, ObjectBags, {o \in BuildOptions : o[1] = None})

NextAutomatic == BuildAutomatic \/ DropSpaceDB

SpecAutomatic == InitDb /\ [][NextAutomatic]_vars

\* The number of entries of the i-th level built.
LevelSize(i) == BagCardinality(indices[i].objects)

\* C19: in automatic mode every level built holds at least max_elements
\* entries (Core::new hands over the larger of max_elements and the number
\* of identifiers), unless the full-resolution input holds fewer.
C19_LevelsHoldMaxElements ==
    (Automatic /\ BagCardinality(build.space_objects) >= build.max_elements.value)
        => \A i \in DOMAIN indices : LevelSize(i) >= build.max_elements.value

\* The level a coarser level is built from holds more than max_elements
\* entries: the loop stops as soon as the objects left are max_elements or
\* fewer.
C19_BuiltFromMoreThanMaxElements ==
    Automatic
        => \A i \in DOMAIN indices :
            i > 1 => LevelSize(1) > build.max_elements.value

\* C20: in automatic mode a coarser level is built only if it holds at most
\* half the entries of the level built before it, so each level holds at
\* most half as many entries as the next finer one.
C20_LevelsHalve ==
    Automatic
        => \A i \in DOMAIN indices :
            i > 1 => 2 * LevelSize(i) <= LevelSize(i - 1)

\* An automatic build produced a coarser level after it skipped a scale.
C20_Witness ==
    /\ Automatic
    /\ \E i \in DOMAIN indices : i > 1 /\ indices[i].scale[1] > indices[i - 1].scale[1] + 1

(***************************************************************************)
(* The partial order of positions                                          *)
(***************************************************************************)
\* Most coordinates of a compared position.
MaxDimensions == 2

\* Position::new(coordinates) for every list of at most MaxDimensions
\* encoded coordinates, the empty list included.
ComparedPositions == UNION {[1..n -> Ticks] : n \in 0..MaxDimensions}

\* a <= b, a < b and b <= a are evaluated on two positions.
ComparePositions ==
    /\ compared = None
    /\ \E a, b \in ComparedPositions :
        compared' = [a |-> a, b |-> b, partial_cmp |-> PartialCmp(a, b),
                     le |-> PositionLe(a, b), lt |-> PositionLt(a, b),
                     ge |-> PositionLe(b, a)]
    /\ UNCHANGED <<axisVars, shapeVars, dbVars, coreVars, tripVars, rasterVars,
                   baseVars, tableVars, madeVars>>

DropComparison ==
    /\ compared # None
    /\ compared' = None
    /\ UNCHANGED <<axisVars, shapeVars, dbVars, coreVars, tripVars, rasterVars,
                   baseVars, tableVars, madeVars>>

NextOrder == ComparePositions \/ DropComparison

SpecOrder == InitDb /\ [][NextOrder]_vars

\* a[i] <= b[i] on every axis i.
LeOnEveryAxis(a, b) == \A i \in DOMAIN a : a[i] <= b[i]

ProductOrder ==
    IF Len(compared.a) # Len(compared.b)
    THEN ~compared.le /\ ~compared.ge
    ELSE /\ compared.le <=> LeOnEveryAxis(compared.a, compared.b)
         /\ compared.lt <=> (LeOnEveryAxis(compared.a, compared.b)
                                /\ compared.a # compared.b)
         /\ (\E i, j \in DOMAIN compared.a :
                compared.a[i] < compared.b[i] /\ compared.a[j] > compared.b[j])
                => (~compared.le /\ ~compared.ge)

\* C21: for positions of equal dimension a <= b holds exactly when
\* a[i] <= b[i] on every axis, a < b when moreover a # b; positions that
\* are smaller on one axis and greater on another, or of different
\* dimensions, are incomparable.
C21_PositionPartialOrder == compared # None => ProductOrder

\* The same for positions of one coordinate or more.
C21_WithCoordinates ==
    (compared # None /\ compared.a # <<>> /\ compared.b # <<>>) => ProductOrder

(***************************************************************************)
(* Explicit scales 0, 2 and 4: thresholds and the levels they select       *)
(***************************************************************************)
\* Longest list of scales handed to the build.
MaxScaleList == 3

\* The scales of the lists: 0, 2 and 4 bits removed on every axis.
WideScales == {<<0, 0, 0>>, <<2, 2, 2>>, <<4, 4, 4>>}

\* SpaceDB::new(unit cube, objects, Some(list), None).
BuildScaled ==
    NewSpaceDB({UnitCube}, PyramidBags,
               {<<Some(l), None>> : l \in ListsUpTo(WideScales, MaxScaleList)})

\* threshold_volume of the queries: 0.2, 0.3 and 1.
WideVolumes == {Rational(1, 5), Rational(3, 10), Rational(1, 1)}

\* One call of SpaceDB::resolution with a threshold volume and no resolution.
SelectByVolume ==
    /\ build # None
    /\ resolutions # <<>>
    /\ parameters = None
    /\ \E v \in WideVolumes :
        LET params == [threshold_volume |-> Some(v), resolution |-> None]
        IN  /\ parameters' = params
            /\ selected' = Resolution(resolutions, params)
    /\ UNCHANGED <<build, indices, resolutions, shapeVars, axisVars, coreVars,
                   tripVars, rasterVars, baseVars, lateVars>>

NextScaled == BuildScaled \/ DropSpaceDB \/ SelectByVolume \/ DropSelection

SpecScaled == InitDb /\ [][NextScaled]_vars

RationalEq(a, b) == a[1] * b[2] = b[1] * a[2]

\* The largest number of bits removed by a level of the build.
LargestScale ==
    CHOOSE s \in {indices[i].scale[1] : i \in DOMAIN indices} :
        \A i \in DOMAIN indices : indices[i].scale[1] <= s

\* The level of the pyramid that removes s bits gets the threshold
\* V / 2^(LargestScale - s).
ThresholdByScale(i) ==
    LET volume == SpaceVolume(build.space)
    IN  RationalEq(Threshold(i),
                   Rational(volume[1],
                            volume[2] * 2 ^ (LargestScale - resolutions[i].scale[1])))

\* The scales of the build are exactly 0, 2 and 4, each once.
ScalesZeroTwoFour ==
    /\ Explicit
    /\ Len(build.scales.value) = 3
    /\ {build.scales.value[k] : k \in 1..3} = WideScales

\* C22: every level built at bit shift s gets the threshold
\* V / 2^(S_max - s), S_max the largest bit shift of the build; with the
\* scales 0, 2 and 4 on a space of volume 1 the thresholds are 1/16, 1/4
\* and 1, threshold_volume 0.3 selects the level of 4 bits and 0.2 the
\* level of 2 bits.
C22_ThresholdByBitShift ==
    /\ (Explicit /\ indices # <<>>)
        => \A i \in DOMAIN resolutions : ThresholdByScale(i)
    /\ (ScalesZeroTwoFour /\ parameters # None /\ selected.status = "Ok")
        => /\ parameters.threshold_volume.value = Rational(3, 10)
                => resolutions[selected.index].scale = <<4, 4, 4>>
           /\ parameters.threshold_volume.value = Rational(1, 5)
                => resolutions[selected.index].scale = <<2, 2, 2>>

\* What the levels get: V / 2^(last position - position), by their
\* position in the list of scales sorted in ascending order.
C22_ThresholdByPosition ==
    (Explicit /\ indices # <<>>)
        => \A i \in DOMAIN indices :
            \E j \in DOMAIN resolutions :
                /\ resolutions[j].scale = indices[i].scale
                /\ RationalEq(Threshold(j),
                              Rational(SpaceVolume(build.space)[1],
                                       SpaceVolume(build.space)[2]
                                            * 2 ^ (Len(indices) - i)))

(***************************************************************************)
(* Claims on the levels of an explicit build                               *)
(***************************************************************************)
\* The objects with s bits removed from the positions they were handed
\* over with: one per distinct (position >> s, value).
ShiftedDirectly(s) ==
    {[o EXCEPT !.position = ReducePrecision(o.position, s)] :
        o \in BagToSet(build.space_objects)}

\* Level i holds each directly shifted object once and nothing else.
LevelIsShiftedInput(i) ==
    /\ BagToSet(indices[i].objects) = ShiftedDirectly(indices[i].scale[1])
    /\ \A o \in BagToSet(indices[i].objects) : CopiesIn(o, indices[i].objects) = 1

DistinctScales == {build.scales.value[k] : k \in DOMAIN build.scales.value}

\* C23: with explicit scales the levels are built in ascending order of
\* scale, one per distinct scale, and the level of scale s holds one entry
\* per distinct (position >> s, value) of the input, whatever the order of
\* the scales in the list.
C23_OneLevelPerDistinctScale ==
    Explicit
        => /\ \A i, j \in DOMAIN indices :
                i < j => indices[i].scale[1] <= indices[j].scale[1]
           /\ Len(indices) = Cardinality(DistinctScales)
           /\ {indices[i].scale : i \in DOMAIN indices} = DistinctScales
           /\ \A i \in DOMAIN indices : LevelIsShiftedInput(i)

\* The part of C23 on the order and the contents of the levels: one level
\* per element of the list, in ascending order of scale, each holding the
\* input shifted by its scale.
C23_LevelsAreShiftedInput ==
    Explicit
        => /\ \A i, j \in DOMAIN indices :
                i < j => indices[i].scale[1] <= indices[j].scale[1]
           /\ Len(indices) = Len(build.scales.value)
           /\ {indices[i].scale : i \in DOMAIN indices} = DistinctScales
           /\ \A i \in DOMAIN indices : LevelIsShiftedInput(i)

(***************************************************************************)
(* Claims on the loop of the automatic mode                                *)
(***************************************************************************)
\* The coordinate 2^31, as its 32-bit pattern.
HighBit == (0 - 2147483647) - 1

\* Two objects 2^31 apart on every axis, under one identifier and under two.
DeepBags ==
    {SetToBag({SpaceSetObject("A", <<0, 0, 0>>, 0),
               SpaceSetObject("A", <<HighBit, HighBit, HighBit>>, v)}) : v \in Values}

\* SpaceDB::new in automatic mode on objects that differ in bit 31 only.
BuildDeep ==
    NewSpaceDB({UnitCube}, DeepBags, {o \in BuildOptions : o[1] = None})

NextDeep == BuildAutomatic \/ BuildDeep \/ DropSpaceDB

SpecDeep == InitDb /\ [][NextDeep]_vars

\* The objects after k iterations of the loop: one bit removed from every
\* position and equal objects merged, k times over.
RECURSIVE ReducedBy(_, _)
ReducedBy(objects, k) ==
    IF k = 0 THEN objects ELSE ReducedBy(ReduceAndDeduplicate(objects, 1), k - 1)

\* Level i was pushed by the iteration that removed the last of its scale's
\* bits: it holds the objects of that iteration, and the iteration ran
\* because more than max_elements objects were left before it.
BuiltByIteration(i) ==
    LET bits == indices[i].scale[1]
    IN  /\ indices[i].objects = ReducedBy(build.space_objects, bits)
        /\ bits > 0 =>
            /\ indices[i].shift = bits - 1
            /\ BagCardinality(ReducedBy(build.space_objects, bits - 1))
                    > build.max_elements.value

\* C24: the loop of the automatic mode stops as soon as max_elements
\* objects or fewer are left or 31 bits have been removed, removes one bit
\* per iteration, and builds no level of a bit shift greater than 31.
C24_StopsAtThirtyOneBits ==
    Automatic
        => \A i \in DOMAIN indices :
            /\ BuiltByIteration(i)
            /\ indices[i].scale[1] <= 31

\* What the loop does: it stops once max_elements objects or fewer are
\* left or 32 bits have been removed, and the shift kept with a level, one
\* less than the bits removed, is 31 at most.
C24_StopsAfterThirtyTwoBits ==
    Automatic
        => \A i \in DOMAIN indices :
            /\ BuiltByIteration(i)
            /\ indices[i].scale[1] <= 32
            /\ indices[i].shift <= 31

\* A level was built by the iteration that removed bit 31.
C24_ThirtyTwoBitsRemoved ==
    /\ Automatic
    /\ \E i \in DOMAIN indices : indices[i].scale = <<32, 32, 32>>

(***************************************************************************)
(* The identifier table of a Core: build_index, Core::new, binary search   *)
(***************************************************************************)
MaxListed == 3
MaxPoints == 1
MaxProperties == 2
MaxLinked == 2

\* The identifiers, in the order of String's Ord.
IdOrder == <<"a", "b", "c">>
Ids == {IdOrder[k] : k \in DOMAIN IdOrder}
IdRank(id) == CHOOSE k \in DOMAIN IdOrder : IdOrder[k] = id

\* properties_hm drained, then sort_unstable_by(id): one Properties per
\* distinct id, in ascending order.
SortedProperties(ids) == SelectSeq(IdOrder, LAMBDA id : id \in ids)

\* The first loop of build_index: one SpaceSetObject per point, its value
\* the position of its object in properties_ref.
RECURSIVE PointsOf(_, _)
PointsOf(objects, done) ==
    IF done = Len(objects) THEN <<>>
    ELSE [k \in 1..objects[done + 1].shapes |-> done] \o PointsOf(objects, done + 1)

\* build_index up to the call of Core::new: (properties, space_set_objects),
\* the objects kept as their value offsets.
BuildIndexTable(objects) ==
    LET properties_ref == [k \in DOMAIN objects |-> objects[k].id]
        properties == SortedProperties({objects[k].id : k \in DOMAIN objects})
        first == PointsOf(objects, 0)
    IN  [properties |-> properties,
         space_objects |->
            [k \in DOMAIN first |->
                BinarySearch(properties, properties_ref[first[k] + 1]).value]]

\* binary_search_by_key on a slice that need not be sorted: an offset
\* holding the key, or no offset; the one offset of the key, or none when
\* the key is absent, if the slice is sorted without duplicate.
BinarySearchOutcomes(properties, id) ==
    IF \A i, j \in DOMAIN properties :
            i < j => IdRank(properties[i]) < IdRank(properties[j])
    THEN {BinarySearch(properties, id)}
    ELSE {OkValue(i - 1) : i \in {j \in DOMAIN properties : properties[j] = id}}
            \cup {Err("NotFound")}

\* The objects handed to build_index: an id and a number of points each.
ListedObjects ==
    ListsUpTo([id : Ids, shapes : 0..MaxPoints], MaxListed)

\* build_index(name, version, spaces, objects, scales, max_elements): the
\* Core's properties and the value offsets of its indexed objects, in the
\* order of the points.
BuildIndex ==
    /\ table = None
    /\ \E objects \in ListedObjects :
        LET built == BuildIndexTable(objects)
        IN  table' = [origin |-> "build_index",
                      ids |-> PointsOf(objects, 0),
                      listed |-> [k \in DOMAIN objects |-> objects[k].id],
                      properties |-> built.properties,
                      space_objects |-> built.space_objects,
                      lookup |-> None]
    /\ UNCHANGED <<axisVars, shapeVars, dbVars, coreVars, tripVars, rasterVars,
                   baseVars, orderVars, madeVars>>

\* Core::new(title, version, spaces, properties, space_objects, ..): both
\* lists are kept as they are handed over.
CoreNewTable ==
    /\ table = None
    /\ \E properties \in ListsUpTo(Ids, MaxProperties),
          values \in ListsUpTo(0..MaxProperties, MaxLinked) :
        table' = [origin |-> "new", ids |-> <<>>, listed |-> <<>>,
                  properties |-> properties, space_objects |-> values,
                  lookup |-> None]
    /\ UNCHANGED <<axisVars, shapeVars, dbVars, coreVars, tripVars, rasterVars,
                   baseVars, orderVars, madeVars>>

\* The test of get_by_id and get_by_label: is `id` registered at all?
SearchTable ==
    /\ table # None
    /\ table.lookup = None
    /\ \E id \in Ids :
        \E found \in BinarySearchOutcomes(table.properties, id) :
            table' = [table EXCEPT !.lookup = Some([id |-> id, found |-> found])]
    /\ UNCHANGED <<axisVars, shapeVars, dbVars, coreVars, tripVars, rasterVars,
                   baseVars, orderVars, madeVars>>

DropLookup ==
    /\ table # None
    /\ table.lookup # None
    /\ table' = [table EXCEPT !.lookup = None]
    /\ UNCHANGED <<axisVars, shapeVars, dbVars, coreVars, tripVars, rasterVars,
                   baseVars, orderVars, madeVars>>

DropTable ==
    /\ table # None
    /\ table.lookup = None
    /\ table' = None
    /\ UNCHANGED <<axisVars, shapeVars, dbVars, coreVars, tripVars, rasterVars,
                   baseVars, orderVars, madeVars>>

NextTable == BuildIndex \/ CoreNewTable \/ SearchTable \/ DropLookup \/ DropTable

SpecTable == InitDb /\ [][NextTable]_vars

\* The table is in ascending order of id, no id twice.
TableSorted ==
    \A i, j \in DOMAIN table.properties :
        i < j => IdRank(table.properties[i]) < IdRank(table.properties[j])

\* Every indexed object's value is the offset of an entry of the table.
ValuesInTable ==
    \A k \in DOMAIN table.space_objects :
        table.space_objects[k] < Len(table.properties)

\* Every point handed to build_index is linked to the entry of the id of
\* the object it came with.
LinkedToTheirIds ==
    /\ Len(table.space_objects) = Len(table.ids)
    /\ \A k \in DOMAIN table.ids :
        table.properties[table.space_objects[k] + 1] = table.listed[table.ids[k] + 1]

\* The binary search finds the id searched exactly when the table holds it,
\* at its offset.
FoundWhenPresent ==
    table.lookup # None
        => LET id == table.lookup.value.id
               found == table.lookup.value.found
           IN  /\ (found.status = "Ok") = (\E i \in DOMAIN table.properties :
                                                table.properties[i] = id)
               /\ found.status = "Ok" => table.properties[found.value + 1] = id

\* C25: the properties table of every Core, built by build_index or by
\* Core::new, is sorted by id without duplicate, every indexed object's
\* value_offset is the position of its identifier's entry, and the binary
\* search finds an identifier exactly when it is present.
C25_TableSortedAndLinked ==
    table # None
        => /\ TableSorted
           /\ ValuesInTable
           /\ table.origin = "build_index" => LinkedToTheirIds
           /\ FoundWhenPresent

\* The same for the Cores of build_index alone, several objects of one id
\* included.
C25_BuildIndexTable ==
    (table # None /\ table.origin = "build_index")
        => /\ TableSorted
           /\ ValuesInTable
           /\ LinkedToTheirIds
           /\ FoundWhenPresent

\* build_index was given two objects of one id after an object of a later
\* id, each with a point, and the id was searched.
C25_SameIdTwice ==
    /\ table # None
    /\ table.origin = "build_index"
    /\ table.listed = <<"b", "a", "a">>
    /\ Len(table.space_objects) = 3
    /\ table.lookup # None
    /\ table.lookup.value.id = "a"

(***************************************************************************)
(* Core::get_by_label with a DataBase that may not know the Core's spaces  *)
(***************************************************************************)
\* parameters.db: the spaces of the Core, none, one of them, both, or the
\* first one registered twice.
QueryDataBases ==
    {DataBaseNew(spaces, <<>>) :
        spaces \in {<<>>, <<CoreSpaces[1]>>, <<CoreSpaces[2]>>, CoreSpaces,
                    <<CoreSpaces[1], CoreSpaces[1], CoreSpaces[2]>>}}

\* The SpaceDBs that the closure of search_volume does not drop, each with
\* the space db.space(s.name()) resolves to. SpaceDB::get_by_id fails on the
\* same db.space call only.
ResolvedIn(db, space_db) ==
    LET known == SelectSeq(space_db,
                           LAMBDA s : DataBaseSpace(db, s.name).status = "Ok")
    IN  [k \in DOMAIN known |->
            [known[k] EXCEPT !.space = DataBaseSpace(db, known[k].name).value]]

\* The second for loop of Core::get_by_label: `db.space(s.name())?` and
\* `get_by_positions(..)?` return from the query with their error.
RECURSIVE EntriesByLabelIn(_, _, _, _, _, _)
EntriesByLabelIn(db, space_db, offset, params, k, entries) ==
    IF k > Len(space_db) THEN OkValue(entries)
    ELSE LET s == space_db[k]
             to == DataBaseSpace(db, s.name)
             resolved == ResolvedIn(db, space_db)
         IN  IF to.status = "Err" THEN to
             ELSE IF \E j \in DOMAIN resolved :
                        Resolution(resolved[j].levels, params).status = "Panic"
                  THEN Panic
             ELSE LET entry == EntriesByLabel(<<[s EXCEPT !.space = to.value]>>,
                                              offset, params,
                                              SearchVolume(resolved, offset, params),
                                              1, <<>>)
                  IN  EntriesByLabelIn(db, space_db, offset, params, k + 1,
                                       entries \o entry.value)

\* Core::get_by_label, the spaces resolved through parameters.db.
CoreGetByLabelIn(db, properties, space_db, params, id) ==
    LET found == BinarySearch(properties, id)
    IN  IF found.status = "Err" THEN OkValue(<<>>)
        ELSE EntriesByLabelIn(db, space_db, found.value, params, 1, <<>>)

\* One call of Core::get_by_label(parameters, id), parameters.db being any
\* of the databases above.
CoresGetByLabelIn ==
    /\ build # None
    /\ call = None
    /\ \E params \in CoresQueryParameters, id \in Identifiers, db \in QueryDataBases :
        /\ call' = [op |-> "get_by_label", id |-> id, parameters |-> params, db |-> db]
        /\ results' = CoreGetByLabelIn(db, build.properties, build.space_db, params, id)
    /\ UNCHANGED <<dbVars, shapeVars, axisVars, tripVars, rasterVars, baseVars, lateVars>>

NextLabel == CoresNew \/ CoresGetByLabelIn \/ DropResults

SpecLabel == InitDb /\ [][NextLabel]_vars

\* The SpaceDBs of the Core whose space the database of the call does not
\* resolve.
Unresolved ==
    {k \in DOMAIN build.space_db :
        DataBaseSpace(call.db, build.space_db[k].name).status = "Err"}

\* C26: get_by_label of a registered identifier returns Ok although the
\* space of a SpaceDB cannot be resolved (which is also how its get_by_id
\* fails), with an empty entry for that SpaceDB.
C26_ErrorSwallowed ==
    (call # None /\ Registered(call.id) /\ Unresolved # {})
        => /\ results.status = "Ok"
           /\ Len(results.value) = Len(build.space_db)
           /\ \A k \in Unresolved : results.value[k][2] = {}

\* What the query returns then: the error of db.space, and Ok with one
\* entry per SpaceDB only when every space is resolved.
C26_ErrorReturned ==
    (call # None /\ Registered(call.id))
        => IF Unresolved # {}
           THEN results.status = "Err"
           ELSE /\ results.status = "Ok"
                /\ Len(results.value) = Len(build.space_db)

(***************************************************************************)
(* Axis::new                                                               *)
(***************************************************************************)
MaxDirection == 2

\* The square root of a perfect square.
Sqrt(n) == CHOOSE r \in 0..n : r * r = n

SumOfSquares(v) == v[1] * v[1] + v[2] * v[2] + v[3] * v[3]

\* Position::norm of a vector of integral norm.
PositionNorm(v) == Sqrt(SumOfSquares(v))

\* Position::unit: self * (1 / norm). The norm of the zero vector is 0,
\* 1 / 0 is infinite and 0 * inf is NaN, written <<0, 0>>.
PositionUnit(v) ==
    [k \in DOMAIN v |-> RationalMul(FromInt(v[k]), <<1, PositionNorm(v)>>)]

\* The directions handed to Axis::new: the vectors of integral norm, the
\* zero vector among them.
Directions ==
    {v \in [1..3 -> (0 - MaxDirection)..MaxDirection] :
        \E r \in 0..SumOfSquares(v) : r * r = SumOfSquares(v)}

MeasurementUnits == {"m", "mm", "furlong"}

\* UnitSI::from(&str): unimplemented!() on a unit it does not know.
UnitSI(name) == IF name \in {"m", "dm", "cm", "mm", "um", "nm", "pm"}
                THEN OkValue(name) ELSE Panic

\* Axis::new(unit, unit_vector, set, minimum, maximum, steps)
AxisNew(unit, unit_vector, minimum, maximum, steps) ==
    LET direction == PositionUnit(unit_vector)
        graduation == Graduation(minimum, maximum, steps)
    IN  IF UnitSI(unit).status = "Panic" THEN Panic
        ELSE OkValue([measurement_unit |-> UnitSI(unit).value,
                      graduation |-> graduation,
                      unit_vector |-> direction])

\* One call of Axis::new.
MakeAxis ==
    /\ made = None
    /\ \E unit \in MeasurementUnits, unit_vector \in Directions,
          minimum \in (0 - 1)..1, maximum \in (0 - 1)..MaxBound, steps \in 0..MaxSteps :
        made' = [unit |-> unit, unit_vector |-> unit_vector, minimum |-> minimum,
                 maximum |-> maximum, steps |-> steps,
                 axis |-> AxisNew(unit, unit_vector, minimum, maximum, steps)]
    /\ UNCHANGED <<axisVars, shapeVars, dbVars, coreVars, tripVars, rasterVars,
                   baseVars, orderVars, tableVars>>

DropAxis ==
    /\ made # None
    /\ made' = None
    /\ UNCHANGED <<axisVars, shapeVars, dbVars, coreVars, tripVars, rasterVars,
                   baseVars, orderVars, tableVars>>

NextMade == MakeAxis \/ DropAxis

SpecMade == InitDb /\ [][NextMade]_vars

\* The vector has no NaN component and its squared norm is 1.
NormIsOne(u) ==
    /\ \A k \in DOMAIN u : u[k][2] # 0
    /\ RationalEq(RationalAdd(RationalAdd(RationalMul(u[1], u[1]),
                                          RationalMul(u[2], u[2])),
                              RationalMul(u[3], u[3])),
                  FromInt(1))

\* C27: every Axis that Axis::new returns has steps > 0, minimum < maximum
\* and a unit vector of norm 1: steps = 0, minimum >= maximum and the zero
\* direction are rejected or never yield an axis.
C27_AxisWellFormed ==
    (made # None /\ made.axis.status = "Ok")
        => /\ made.axis.value.graduation.steps > 0
           /\ made.axis.value.graduation.minimum < made.axis.value.graduation.maximum
           /\ NormIsOne(made.axis.value.unit_vector)

\* What Axis::new does: it returns no error, keeps minimum, maximum and
\* steps as they are, and the unit vector has norm 1 exactly when the
\* direction is not the zero vector.
C27_NothingRejected ==
    made # None
        => /\ made.axis.status = "Ok" \/ made.unit = "furlong"
           /\ made.axis.status = "Ok"
                => /\ made.axis.value.graduation.steps = made.steps
                   /\ made.axis.value.graduation.minimum = made.minimum
                   /\ made.axis.value.graduation.maximum = made.maximum
                   /\ NormIsOne(made.axis.value.unit_vector)
                        = (made.unit_vector # <<0, 0, 0>>)

(***************************************************************************)
(* Claims on the number of levels of a SpaceDB                             *)
(***************************************************************************)
\* There is a level, and a selection made is one of the levels.
SelectsALevel ==
    /\ Len(resolutions) >= 1
    /\ parameters # None
        => /\ selected.status = "Ok"
           /\ selected.index \in 1..Len(resolutions)

\* C28: every SpaceDB has at least one level and resolution(parameters)
\* returns the index of one of its levels whatever the parameters, the
\* SpaceDB built from an empty list of scales or from no object included.
C28_AlwaysALevel ==
    Built => SelectsALevel

\* The same for every SpaceDB but the one built from an empty list of
\* scales, the SpaceDB built from no object included.
C28_UnlessScalesEmpty ==
    (Built /\ build.scales # Some(<<>>)) => SelectsALevel

\* A selection was made in a SpaceDB built from no object.
C28_NoObject ==
    /\ Built
    /\ build.scales # Some(<<>>)
    /\ BagCardinality(build.space_objects) = 0
    /\ parameters # None
    /\ selected.status = "Ok"

(***************************************************************************)
(* SpaceDB::get_by_positions with the position of an indexed object        *)
(***************************************************************************)
\* One call of SpaceDB::get_by_positions(&[position], parameters), the
\* position being the encoded position of one of the objects indexed.
GetByPositions ==
    /\ build # None
    /\ parameters = None
    /\ \E params \in QueryParameters, o \in BagToSet(build.space_objects) :
        /\ parameters' = [threshold_volume |-> params.threshold_volume,
                          resolution |-> params.resolution,
                          object |-> o]
        /\ selected' = SpaceDBGetByPositions(resolutions, {o.position}, params)
    /\ UNCHANGED <<build, indices, resolutions, shapeVars, axisVars, coreVars,
                   tripVars, rasterVars, baseVars, lateVars>>

MaxIndexed == 2

\* SpaceDB::new on up to MaxIndexed distinct objects of the unit cube.
BuildIndexed ==
    NewSpaceDB({UnitCube},
               {SetToBag(S) : S \in {T \in SUBSET ObjectPool : Cardinality(T) <= MaxIndexed}},
               BuildOptions)

NextPositions == BuildIndexed \/ DropSpaceDB \/ GetByPositions \/ DropSelection

SpecPositions == InitDb /\ [][NextPositions]_vars

\* The level the parameters of the call select.
LevelSearched ==
    resolutions[Resolution(resolutions, [threshold_volume |-> parameters.threshold_volume,
                                         resolution |-> parameters.resolution]).index]

\* The call returned the object searched: its position with its value.
ObjectReturned ==
    /\ selected.status = "Ok"
    /\ \E r \in selected.value :
        /\ r[1] = parameters.object.position
        /\ r[2].value = parameters.object.value

\* C29: whatever level the parameters select, get_by_positions of the
\* full-precision encoded position of an indexed object returns the
\* value_offset of that object.
C29_ObjectFoundAtEveryLevel ==
    (parameters # None /\ selected.status = "Ok") => ObjectReturned

\* What holds: the object is returned at the levels of scale 0, and at a
\* coarser level when no bit of its position is lost at that scale; what a
\* coarser level returns is whatever it stores at the full-precision key.
C29_FoundWhereNoBitIsLost ==
    (parameters # None /\ selected.status = "Ok")
        => /\ (ReducePrecision(parameters.object.position, LevelSearched.scale[1])
                    = parameters.object.position) => ObjectReturned
           /\ selected.value
                = {<<parameters.object.position, e>> :
                    e \in {f \in BagToSet(LevelSearched.index) :
                            f.position = parameters.object.position}}

\* The object was searched, and found, at a level of scale 0 that holds
\* objects of another value too.
C29_FoundAtFullResolution ==
    /\ parameters # None
    /\ selected.status = "Ok"
    /\ LevelSearched.scale = <<0, 0, 0>>
    /\ ObjectReturned
    /\ \E e \in BagToSet(LevelSearched.index) : e.value # parameters.object.value

(***************************************************************************)
(* Claims on the sign of the threshold volumes                             *)
(***************************************************************************)
\* The divisor of the threshold of the i-th level built.
Divisor(i) == ShiftLeft32(MaxShift(indices) - indices[i].shift)

\* Every divisor is positive, and every threshold is positive and at most
\* the volume of the space.
ThresholdsWithinVolume ==
    /\ \A i \in DOMAIN indices : Divisor(i) > 0
    /\ \A j \in DOMAIN resolutions :
        /\ RationalLt(FromInt(0), Threshold(j))
        /\ RationalLe(Threshold(j), SpaceVolume(build.space))

\* C30: the threshold volumes of a space of positive volume are positive
\* and at most the volume, the divisor 1 << (max_shift - shift) being
\* positive for every pair of shifts a build reaches, 31 apart included.
C30_ThresholdsPositive ==
    Built => ThresholdsWithinVolume

\* What holds: the thresholds are positive and at most the volume as long
\* as no level is built with shift 31, and of two levels 31 apart the finer
\* one has the divisor -2^31 and a negative threshold.
C30_PositiveUnlessThirtyOneApart ==
    Built
        => IF \E i \in DOMAIN indices : MaxShift(indices) - indices[i].shift = 31
           THEN \E j \in DOMAIN resolutions : RationalLt(Threshold(j), FromInt(0))
           ELSE ThresholdsWithinVolume

====
